---- MODULE Spec2Model ----
(***************************************************************************)
(* Voice-interview turn-taking controller.                                 *)
(*   useVoiceRecorder.ts  - Speech Input Capturer (hook)                   *)
(*   VoiceInterview.tsx   - Turn Orchestrator (component)                  *)
(*   PracticeTests.tsx    - parent page: onSkip / onAnswerSubmit           *)
(*   useTextToSpeech.ts   - Speech Output Driver (utterance life cycle)    *)
(*                                                                         *)
(* The JavaScript event loop is single threaded: every handler below runs  *)
(* to completion (up to its first await) as one step.  A handler is an     *)
(* operator from a state record to a state record, so that the calls a     *)
(* handler makes compose in program order.  A React commit (render plus    *)
(* the effects whose dependencies changed) completes the step that caused  *)
(* it; the commit of a question change is shown in two steps so that the   *)
(* state right after the question-change effect is visible.                *)
(*                                                                         *)
(* Timers are kept in arming order with their delay in milliseconds.  A    *)
(* timer may fire only when no timer armed before it has a delay that is   *)
(* shorter or equal: that one expires first.  Network responses, device    *)
(* callbacks and user gestures have no bound on their latency.             *)
(***************************************************************************)
EXTENDS Integers, Sequences, FiniteSets, TLC

\* ---------------------------------------------------------------- bounds
MaxQuestions == 2
MaxSessions == 2
MaxSkipCalls == 2
MaxInFlight == 1
MaxTimers == 3
MaxClicks == 1
MaxFaults == 1
MaxSpeaks == 2
MaxVoices == 3
MaxSamples == 3
MaxTime == 2700

\* ------------------------------------------------------ program constants
STOP_FLUSH_DELAY == 100
REATTACH_DELAY == 100
AUTO_SKIP_DELAY == 200
TTS_ERROR_PAUSE == 500
TTS_END_PAUSE == 800
SKIP_NEXT_DELAY == 800
ANSWER_NEXT_DELAY == 1000
SKIP_SUMMARY_DELAY == 1000
ANSWER_SUMMARY_DELAY == 2000
COUNTDOWN_TICK == 1000
RETRY_DELAY == 1500
EXTENDED_SILENCE_THRESHOLD == 7000
COUNTDOWN_SECONDS == 3

VARIABLES
  \* VoiceInterview.tsx: React state
  phase, error, silenceCountdown, showSkipWarning, lastSpokenMessage,
  \* VoiceInterview.tsx: refs
  hasSpokenCurrentQuestion, hasUserSpokenThisRecording, recordingStartTimeRef,
  silenceTimerRef, countdownTimerRef, isAutoSkippingRef, currentQuestionIdRef,
  isCountdownActiveRef, isManuallySkippingRef,
  \* useVoiceRecorder.ts: refs and state
  sessions, mediaRecorderRef, audioStreamRef, audioContextRef, analyserRef,
  analysisIntervalRef, isRecording, audioLevel,
  \* useTextToSpeech.ts
  isReady, utterance, canceledEvents, spoken, tts,
  \* window.speechSynthesis, and what a client of the driver saw of its calls
  synthesis, calls,
  \* useTextToSpeech.ts: the argument and the result of selectBestVoice
  voices, bestVoice,
  \* useVoiceRecorder.ts: the silence detection loop with its clock, and the
  \* argument and the result of isSilent
  silence, samples,
  \* VoiceInterview.tsx: the camera preview
  camera,
  \* PracticeTests.tsx: props handed to the component
  currentQuestion, lastMessage, messageText, isLoading,
  \* environment: timers, requests in flight, the server's question cursor
  timers, net, serverQuestion, commit, mediaDevices, speechSynthesis,
  \* observation: onSkip calls made since the current question arrived
  skipCalls,
  \* budgets: user gestures made and platform or service failures seen
  clicks, faults

vars == <<phase, error, silenceCountdown, showSkipWarning, lastSpokenMessage,
          hasSpokenCurrentQuestion, hasUserSpokenThisRecording,
          recordingStartTimeRef, silenceTimerRef, countdownTimerRef,
          isAutoSkippingRef, currentQuestionIdRef, isCountdownActiveRef,
          isManuallySkippingRef, sessions, mediaRecorderRef, audioStreamRef,
          audioContextRef, analyserRef, analysisIntervalRef, isRecording,
          audioLevel, isReady, utterance, canceledEvents, spoken, tts,
          synthesis, calls, voices, bestVoice, silence, samples, camera,
          currentQuestion,
          lastMessage, messageText, isLoading, timers, net, serverQuestion, commit, mediaDevices,
          speechSynthesis, skipCalls, clicks, faults>>

Questions == 1..MaxQuestions

\* texts of interviewer entries: text q is a text of its own for question q
Texts == 1..MaxQuestions
SessionIds == 1..MaxSessions

\* The whole state as one record: handlers map a record to a record.
\* stopEvents: recorders whose 'stop' event is queued behind the running task.
\* host: who mounted useVoiceRecorder and so whose callbacks its options hold.
Cur ==
  [phase |-> phase, error |-> error, silenceCountdown |-> silenceCountdown,
   showSkipWarning |-> showSkipWarning, lastSpokenMessage |-> lastSpokenMessage,
   hasSpokenCurrentQuestion |-> hasSpokenCurrentQuestion,
   hasUserSpokenThisRecording |-> hasUserSpokenThisRecording,
   recordingStartTimeRef |-> recordingStartTimeRef,
   silenceTimerRef |-> silenceTimerRef, countdownTimerRef |-> countdownTimerRef,
   isAutoSkippingRef |-> isAutoSkippingRef,
   currentQuestionIdRef |-> currentQuestionIdRef,
   isCountdownActiveRef |-> isCountdownActiveRef,
   isManuallySkippingRef |-> isManuallySkippingRef,
   sessions |-> sessions, mediaRecorderRef |-> mediaRecorderRef,
   audioStreamRef |-> audioStreamRef, audioContextRef |-> audioContextRef,
   analyserRef |-> analyserRef, analysisIntervalRef |-> analysisIntervalRef,
   isRecording |-> isRecording, audioLevel |-> audioLevel,
   isReady |-> isReady, utterance |-> utterance,
   canceledEvents |-> canceledEvents, spoken |-> spoken,
   tts |-> tts, synthesis |-> synthesis, calls |-> calls,
   speechSynthesis |-> speechSynthesis, camera |-> camera,
   voices |-> voices, bestVoice |-> bestVoice,
   silence |-> silence, samples |-> samples,
   currentQuestion |-> currentQuestion, lastMessage |-> lastMessage,
   messageText |-> messageText,
   isLoading |-> isLoading, timers |-> timers, net |-> net,
   serverQuestion |-> serverQuestion, commit |-> commit,
   skipCalls |-> skipCalls, clicks |-> clicks, faults |-> faults,
   stopEvents |-> <<>>, overflow |-> FALSE, host |-> "component"]

Store(S) ==
  /\ phase' = S.phase
  /\ error' = S.error
  /\ silenceCountdown' = S.silenceCountdown
  /\ showSkipWarning' = S.showSkipWarning
  /\ lastSpokenMessage' = S.lastSpokenMessage
  /\ hasSpokenCurrentQuestion' = S.hasSpokenCurrentQuestion
  /\ hasUserSpokenThisRecording' = S.hasUserSpokenThisRecording
  /\ recordingStartTimeRef' = S.recordingStartTimeRef
  /\ silenceTimerRef' = S.silenceTimerRef
  /\ countdownTimerRef' = S.countdownTimerRef
  /\ isAutoSkippingRef' = S.isAutoSkippingRef
  /\ currentQuestionIdRef' = S.currentQuestionIdRef
  /\ isCountdownActiveRef' = S.isCountdownActiveRef
  /\ isManuallySkippingRef' = S.isManuallySkippingRef
  /\ sessions' = S.sessions
  /\ mediaRecorderRef' = S.mediaRecorderRef
  /\ audioStreamRef' = S.audioStreamRef
  /\ audioContextRef' = S.audioContextRef
  /\ analyserRef' = S.analyserRef
  /\ analysisIntervalRef' = S.analysisIntervalRef
  /\ isRecording' = S.isRecording
  /\ audioLevel' = S.audioLevel
  /\ isReady' = S.isReady
  /\ utterance' = S.utterance
  /\ canceledEvents' = S.canceledEvents
  /\ spoken' = S.spoken
  /\ tts' = S.tts
  /\ synthesis' = S.synthesis
  /\ calls' = S.calls
  /\ camera' = S.camera
  /\ voices' = S.voices
  /\ bestVoice' = S.bestVoice
  /\ silence' = S.silence
  /\ samples' = S.samples
  /\ speechSynthesis' = S.speechSynthesis
  /\ currentQuestion' = S.currentQuestion
  /\ lastMessage' = S.lastMessage
  /\ messageText' = S.messageText
  /\ isLoading' = S.isLoading
  /\ timers' = S.timers
  /\ net' = S.net
  /\ serverQuestion' = S.serverQuestion
  /\ commit' = S.commit
  /\ skipCalls' = S.skipCalls
  /\ clicks' = S.clicks
  /\ faults' = S.faults

\* ---------------------------------------------------------------- timers
\* k: which setTimeout/setInterval call armed it, d: its delay, c: the value its
\* closure holds, q: the session's current question when it was armed
Timer(k, d, c, q) == [k |-> k, d |-> d, c |-> c, q |-> q]

Arm(S, k, d, c) == [S EXCEPT !.timers = Append(@, Timer(k, d, c, S.currentQuestion))]

RemoveAt(seq, j) == [i \in 1..(Len(seq) - 1) |-> IF i < j THEN seq[i] ELSE seq[i + 1]]

IsNotKind(t, k) == t.k # k

CancelKind(seq, k) == SelectSeq(seq, LAMBDA t : IsNotKind(t, k))

\* setTimeout ordering: an earlier-armed timer with a delay that is not longer
\* expires first.
MayFire(seq, j) == \A i \in 1..(j - 1) : seq[i].d > seq[j].d

HasTimer(seq, k) == \E i \in 1..Len(seq) : seq[i].k = k


\* ------------------------------------------------ useVoiceRecorder.ts
MIN_RECORDING_DURATION == 1000
SILENCE_DURATION == 1500
SPEECH_THRESHOLD == 15
QuietLevel == 0
LoudLevel == 20

\* One record per startRecording call (one Recording Session):
\*   st     free | pending (awaiting getUserMedia) | open | failed
\*   stream none | live | stopped     (the MediaStream and its tracks)
\*   ctx    none | open | closed      (AudioContext and analyser)
\*   rec    none | inactive | recording   (MediaRecorder.state)
\*   itv    the analysis interval created by this call is still scheduled
\*   stopReq stopRecording was called while this session's recorder was the
\*          hook's recorder and was recording
\*   ownStop checkSilence asked for the stop of this session's recorder while
\*          no skip was under way (no skip flag set, no skip call pending),
\*          until the recorder's onstop has run
\*   early  the client called stopRecording while this session's
\*          startRecording call was awaiting getUserMedia
\*   done   number of onRecordingComplete calls made for this session
\*   rel    number of times the tracks of this session's stream were stopped
\*   q      the active question when the recorder was started
NoSession ==
  [st |-> "free", stream |-> "none", ctx |-> "none", rec |-> "none",
   itv |-> FALSE, stopReq |-> FALSE, ownStop |-> FALSE, early |-> FALSE,
   done |-> 0, rel |-> 0, q |-> 0]

\* A session whose objects nothing refers to any more: every resource it
\* acquired is released and no ref of the hook holds it.
Collectable(S, s) ==
  /\ S.sessions[s].st \in {"open", "failed"}
  /\ S.sessions[s].stream # "live"
  /\ S.sessions[s].ctx # "open"
  /\ S.sessions[s].rec # "recording"
  /\ ~S.sessions[s].itv
  /\ s \notin {S.mediaRecorderRef, S.audioStreamRef, S.audioContextRef,
               S.analyserRef, S.analysisIntervalRef}

FreeIds(S) == {s \in SessionIds : S.sessions[s].st = "free"}

NextId(S) == CHOOSE s \in FreeIds(S) : \A t \in FreeIds(S) : s <= t

cleanup(S) ==
  LET i == S.analysisIntervalRef
      S1 == IF i # 0
            THEN [S EXCEPT !.sessions[i].itv = FALSE, !.analysisIntervalRef = 0]
            ELSE S
      m == S1.mediaRecorderRef
      S2 == IF m # 0 /\ S1.sessions[m].rec = "recording"
            THEN [S1 EXCEPT !.sessions[m].rec = "inactive",
                            !.stopEvents = Append(@, m)]
            ELSE S1
      S3 == [S2 EXCEPT !.mediaRecorderRef = 0]
      a == S3.audioStreamRef
      S4 == IF a # 0
            THEN [S3 EXCEPT !.sessions[a].stream = "stopped",
                            !.sessions[a].rel = @ + 1,
                            !.audioStreamRef = 0]
            ELSE S3
      c == S4.audioContextRef
      S5 == IF c # 0 /\ S4.sessions[c].ctx # "closed"
            THEN [S4 EXCEPT !.sessions[c].ctx = "closed", !.audioContextRef = 0]
            ELSE S4
  IN [S5 EXCEPT !.analyserRef = 0]

stopRecordingAlwaysArms(S) ==
  Arm([S EXCEPT !.isRecording = FALSE, !.audioLevel = QuietLevel],
      "stopFlush", STOP_FLUSH_DELAY, 0)

stopRecording(S) ==
  LET i == S.analysisIntervalRef
      S1 == IF i # 0
            THEN [S EXCEPT !.sessions[i].itv = FALSE, !.analysisIntervalRef = 0]
            ELSE S
      m == S1.mediaRecorderRef
      S2 == IF m # 0 /\ S1.sessions[m].rec = "recording"
            THEN Arm([S1 EXCEPT !.sessions[m].stopReq = TRUE],
                     "stopFlush", STOP_FLUSH_DELAY, 0)
            ELSE S1
  IN [S2 EXCEPT !.isRecording = FALSE, !.audioLevel = QuietLevel]

\* the callback of the setTimeout armed by stopRecording
stopFlushTimeout(S) ==
  LET m == S.mediaRecorderRef
  IN IF m # 0 /\ S.sessions[m].rec = "recording"
     THEN [S EXCEPT !.sessions[m].rec = "inactive", !.stopEvents = Append(@, m)]
     ELSE S

\* resetRecording: cleanup, then the setters.  The hook's error, audioBlob and
\* isProcessing are read by no caller and are not held; isRecording is not
\* among the setters.
resetRecording(S) == [cleanup(S) EXCEPT !.audioLevel = QuietLevel]

\* recorder.onError option of the component (VoiceInterview.tsx)
recorderOnError(S) == [S EXCEPT !.error = TRUE, !.phase = "IDLE"]

\* onError option of a client that only notes the error
clientOnError(S) == [S EXCEPT !.error = TRUE]

\* if (onError) onError(errorMessage)
onError(S) == IF S.host = "component" THEN recorderOnError(S) ELSE clientOnError(S)

\* the catch block of startRecording
startRecordingCatch(S) == cleanup(onError(S))

\* mediaRecorder.onerror
mediaRecorderOnError(S) == cleanup(onError(S))

\* startRecording up to its await: the support check, then getUserMedia
startRecording(S, supported) ==
  IF ~supported
  THEN startRecordingCatch(S)
  ELSE IF FreeIds(S) = {}
       THEN [S EXCEPT !.overflow = TRUE]
       ELSE [S EXCEPT !.sessions[NextId(S)].st = "pending"]

\* startRecording after getUserMedia settled, for the call that owns session s.
\* outcome: ok | denied (getUserMedia rejected) | failContext | failRecorder |
\* failStart (the constructor or call of that name threw)
startRecordingResume(S, s, outcome) ==
  LET A == [S EXCEPT !.sessions[s].stream = "live", !.audioStreamRef = s]
      B == [A EXCEPT !.sessions[s].ctx = "open", !.audioContextRef = s,
                     !.analyserRef = s]
      C == [B EXCEPT !.sessions[s].rec = "inactive", !.mediaRecorderRef = s]
      D == [C EXCEPT !.sessions[s].rec = "recording",
                     !.sessions[s].q = S.currentQuestion,
                     !.sessions[s].itv = TRUE,
                     !.sessions[s].st = "open",
                     !.isRecording = TRUE,
                     !.analysisIntervalRef = s]
      F(X) == startRecordingCatch([X EXCEPT !.sessions[s].st = "failed"])
  IN CASE outcome = "ok" -> D
       [] outcome = "denied" -> F(S)
       [] outcome = "failContext" -> F(A)
       [] outcome = "failRecorder" -> F(B)
       [] outcome = "failStart" -> F(C)

GumOutcomes == {"ok", "denied", "failContext", "failRecorder", "failStart"}


\* ------------------------------------------------ useTextToSpeech.ts
\* The orchestrator sees the driver through isReady and its three callbacks.
\* utterance: none | pending (speak called, 'start' not yet fired) | speaking
\* canceledEvents: 'error' events with error "canceled" that the platform has
\* queued for utterances removed from its queue before they began
\* spoken: the texts handed to speak, in call order

\* tts options of the component: onStart (VoiceInterview.tsx)
ttsOnStart(S) == [S EXCEPT !.phase = "AI_SPEAKING"]

\* tts options of the component: onEnd
ttsOnEnd(S) == Arm([S EXCEPT !.phase = "WAITING_TO_RECORD"], "ttsEnd", TTS_END_PAUSE, 0)

\* tts options of the component: onError
ttsOnError(S) ==
  Arm([S EXCEPT !.phase = "WAITING_TO_RECORD"], "ttsError", TTS_ERROR_PAUSE, 0)

\* window.speechSynthesis.cancel(): an utterance that had begun gets an 'error'
\* event with error "interrupted", which utterance.onerror ignores; one that
\* had not begun gets one with error "canceled"
ttsCancel(S) ==
  IF S.utterance = "pending"
  THEN [S EXCEPT !.utterance = "none", !.canceledEvents = @ + 1]
  ELSE [S EXCEPT !.utterance = "none"]

ttsSpeak(S, text) ==
  LET S1 == [S EXCEPT !.spoken = Append(@, text)]
  IN IF ~S.speechSynthesis
     THEN ttsOnError(S1)
     ELSE [ttsCancel(S1) EXCEPT !.utterance = "pending"]

ttsStop(S) == IF S.speechSynthesis THEN ttsCancel(S) ELSE S

\* ------------------------------------------------ PracticeTests.tsx
\* A request in flight.  manual: the skip was made by handleSkip.  recQ: the
\* question that was active when the audio it is about was recorded; q: the
\* session's current question when onAnswerSubmit was called.
Request(k, manual, recQ, q) == [k |-> k, manual |-> manual, recQ |-> recQ, q |-> q]

\* handleVoiceSkip -> handleSkipQuestion, up to its fetch
onSkip(S, manual) ==
  [S EXCEPT !.lastMessage = 0,
            !.messageText = 0,
            !.isLoading = TRUE,
            !.net = Append(@, Request("skip", manual, 0, 0)),
            !.skipCalls = @ + 1]

\* handleVoiceAnswerSubmit -> handleAnswerSubmission, up to its fetch.
\* recQ is the question that was active when the submitted audio was recorded.
onAnswerSubmit(S, recQ) ==
  [S EXCEPT !.lastMessage = 0,
            !.messageText = 0,
            !.isLoading = TRUE,
            !.net = Append(@, Request("answer", FALSE, recQ, S.currentQuestion))]

\* ------------------------------------------------ VoiceInterview.tsx
clearSilenceTimers(S) ==
  [S EXCEPT !.timers = CancelKind(CancelKind(@, "silence"), "countdown"),
            !.silenceTimerRef = FALSE,
            !.countdownTimerRef = FALSE,
            !.isCountdownActiveRef = FALSE,
            !.silenceCountdown = 0,
            !.showSkipWarning = FALSE]

\* recordingStartTimeRef = Date.now(): the 7 s that the watchdog measures from
\* it are the timer "elapsed", which no handler is attached to.
startListening(S, supported) ==
  LET S1 == Arm([S EXCEPT !.isAutoSkippingRef = FALSE,
                          !.hasUserSpokenThisRecording = FALSE,
                          !.recordingStartTimeRef = "set",
                          !.timers = CancelKind(@, "elapsed")],
                "elapsed", EXTENDED_SILENCE_THRESHOLD, 0)
      S2 == clearSilenceTimers(S1)
      S3 == [S2 EXCEPT !.phase = "RECORDING"]
  IN startRecording(S3, supported)

handleAutoSkipUnguarded(S) ==
  Arm(stopRecording(clearSilenceTimers([S EXCEPT !.isAutoSkippingRef = TRUE])),
      "autoSkip", AUTO_SKIP_DELAY, 0)

handleAutoSkip(S) ==
  IF S.isAutoSkippingRef
  THEN S
  ELSE LET S1 == [S EXCEPT !.isAutoSkippingRef = TRUE]
           S2 == clearSilenceTimers(S1)
           S3 == stopRecording(S2)
       IN Arm(S3, "autoSkip", AUTO_SKIP_DELAY, 0)

startSkipCountdown(S) ==
  IF S.isCountdownActiveRef
  THEN S
  ELSE Arm([S EXCEPT !.isCountdownActiveRef = TRUE,
                     !.showSkipWarning = TRUE,
                     !.silenceCountdown = COUNTDOWN_SECONDS,
                     !.countdownTimerRef = TRUE],
           "countdown", COUNTDOWN_TICK, COUNTDOWN_SECONDS)

\* one tick of the interval created by startSkipCountdown; c is its 'count'
countdownTick(S, c) ==
  IF c - 1 <= 0
  THEN handleAutoSkip([S EXCEPT !.timers = CancelKind(@, "countdown"),
                                !.countdownTimerRef = FALSE,
                                !.isCountdownActiveRef = FALSE])
  ELSE Arm([S EXCEPT !.timers = CancelKind(@, "countdown"),
                     !.silenceCountdown = c - 1],
           "countdown", COUNTDOWN_TICK, c - 1)

SkipInFlightAutoOnly(S) == S.isAutoSkippingRef

\* the top of handleRecordingComplete
SkipInFlight(S) == S.isAutoSkippingRef \/ S.isManuallySkippingRef

\* handleRecordingComplete up to its first await; s is the completed session
handleRecordingComplete(S, s, small) ==
  IF SkipInFlight(S)
  THEN S
  ELSE LET S1 == [S EXCEPT !.phase = "PROCESSING_STT", !.error = FALSE]
       IN IF small
          THEN Arm([S1 EXCEPT !.error = TRUE, !.phase = "IDLE"],
                   "retry", RETRY_DELAY, 0)
          ELSE [S1 EXCEPT !.net = Append(@, Request("stt", FALSE, S.sessions[s].q, 0))]

handleRecordingCompleteResumeNoRestart(S, r, result) ==
  CASE result = "text" ->
         onAnswerSubmit([S EXCEPT !.phase = "PROCESSING_ANSWER"], r.recQ)
    [] result \in {"empty", "unrecognized", "failed"} ->
         [S EXCEPT !.error = TRUE, !.phase = "IDLE"]

\* handleRecordingComplete after the transcription response r arrived.
\* result: text | empty | unrecognized | failed
handleRecordingCompleteResume(S, r, result) ==
  CASE result = "text" ->
         onAnswerSubmit([S EXCEPT !.phase = "PROCESSING_ANSWER"], r.recQ)
    [] result \in {"empty", "unrecognized"} ->
         Arm([S EXCEPT !.error = TRUE, !.phase = "IDLE"], "retry", RETRY_DELAY, 0)
    [] result = "failed" ->
         [S EXCEPT !.error = TRUE, !.phase = "IDLE"]

SttResults == {"text", "empty", "unrecognized", "failed"}

\* handleSkip up to its await
handleSkip(S) ==
  LET S1 == [S EXCEPT !.isManuallySkippingRef = TRUE, !.isAutoSkippingRef = TRUE]
      S2 == clearSilenceTimers(S1)
      S3 == stopRecording(S2)
      S4 == ttsStop(S3)
      S5 == [S4 EXCEPT !.error = FALSE, !.hasSpokenCurrentQuestion = FALSE,
                       !.phase = "PROCESSING_ANSWER"]
  IN onSkip(S5, TRUE)

\* the finally block of handleSkip
handleSkipFinally(S) == [S EXCEPT !.phase = "IDLE", !.isManuallySkippingRef = FALSE]

\* onRecordingComplete option of a client that does nothing with the blob
clientOnComplete(S, s, small) == S

\* if (onRecordingComplete) onRecordingComplete(blob)
onRecordingComplete(S, s, small) ==
  IF S.host = "component"
  THEN handleRecordingComplete(S, s, small)
  ELSE clientOnComplete(S, s, small)

\* mediaRecorder.onstop of session s (useVoiceRecorder.ts); small: the blob is
\* under the size floor of handleRecordingComplete
mediaRecorderOnStop(S, s, small) ==
  [cleanup(onRecordingComplete([S EXCEPT !.sessions[s].done = @ + 1], s, small))
     EXCEPT !.sessions[s].ownStop = FALSE]


\* ------------------------------------------------ effects (VoiceInterview.tsx)
ExtendedSilenceElapsedAtOnce(S) == S.recordingStartTimeRef = "set"

\* 7 s have passed since recordingStartTimeRef was set
ExtendedSilenceElapsed(S) ==
  S.recordingStartTimeRef = "set" /\ ~HasTimer(S.timers, "elapsed")

questionChangeEffectKeepsAutoSkip(S) ==
  [clearSilenceTimers(S) EXCEPT !.currentQuestionIdRef = S.currentQuestion,
                                !.isManuallySkippingRef = FALSE,
                                !.hasUserSpokenThisRecording = FALSE,
                                !.recordingStartTimeRef = "null",
                                !.timers = CancelKind(CancelKind(CancelKind(@,
                                             "elapsed"), "silence"), "countdown"),
                                !.hasSpokenCurrentQuestion = FALSE,
                                !.error = FALSE]

questionChangeEffectKeepsTimers(S) ==
  [S EXCEPT !.currentQuestionIdRef = S.currentQuestion,
            !.isAutoSkippingRef = FALSE,
            !.isManuallySkippingRef = FALSE,
            !.isCountdownActiveRef = FALSE,
            !.hasUserSpokenThisRecording = FALSE,
            !.recordingStartTimeRef = "null",
            !.timers = CancelKind(@, "elapsed"),
            !.silenceCountdown = 0,
            !.showSkipWarning = FALSE,
            !.hasSpokenCurrentQuestion = FALSE,
            !.error = FALSE]

\* useEffect on session.current_question?.id
questionChangeEffect(S) ==
  LET S1 == IF S.currentQuestionIdRef # S.currentQuestion
            THEN LET A == [S EXCEPT !.currentQuestionIdRef = S.currentQuestion,
                                    !.isAutoSkippingRef = FALSE,
                                    !.isManuallySkippingRef = FALSE,
                                    !.isCountdownActiveRef = FALSE,
                                    !.hasUserSpokenThisRecording = FALSE,
                                    !.recordingStartTimeRef = "null",
                                    !.timers = CancelKind(@, "elapsed")]
                     B == IF A.silenceTimerRef
                          THEN [A EXCEPT !.timers = CancelKind(@, "silence"),
                                         !.silenceTimerRef = FALSE]
                          ELSE A
                     C == IF B.countdownTimerRef
                          THEN [B EXCEPT !.timers = CancelKind(@, "countdown"),
                                         !.countdownTimerRef = FALSE]
                          ELSE B
                 IN [C EXCEPT !.silenceCountdown = 0, !.showSkipWarning = FALSE]
            ELSE S
  IN [S1 EXCEPT !.hasSpokenCurrentQuestion = FALSE, !.error = FALSE]

initEffectWithoutMessage(S) ==
  IF S.phase = "INITIALIZING_TTS" /\ S.isReady
  THEN [S EXCEPT !.phase = "READY_TO_START"]
  ELSE S

\* useEffect: INITIALIZING_TTS -> READY_TO_START.  In INITIALIZING_TTS the
\* conversation holds the opening entry only: it is the first interviewer
\* message, and messageText = 0 says that its message is empty or missing.
initEffect(S) ==
  IF S.phase = "INITIALIZING_TTS" /\ S.isReady
     /\ S.lastMessage # 0 /\ S.messageText # 0
  THEN [S EXCEPT !.phase = "READY_TO_START"]
  ELSE S

\* message: the entry that is spoken; its text is messageText
speakInterviewerMessage(S, message) ==
  IF S.messageText = S.lastSpokenMessage
  THEN S
  ELSE ttsSpeak([S EXCEPT !.lastSpokenMessage = S.messageText,
                          !.hasSpokenCurrentQuestion = TRUE,
                          !.error = FALSE], message)

handleBeginInterviewNoMark(S) ==
  ttsSpeak([S EXCEPT !.phase = "AI_SPEAKING", !.hasSpokenCurrentQuestion = TRUE], 1)

\* the first interviewer entry of the conversation is the opening question
handleBeginInterview(S) ==
  ttsSpeak([S EXCEPT !.phase = "AI_SPEAKING",
                     !.hasSpokenCurrentQuestion = TRUE,
                     !.lastSpokenMessage = 1], 1)

\* useEffect watching conversationHistory; lastMessage = 0 when the last entry
\* is the candidate's, otherwise the question the interviewer's entry asks;
\* messageText is the text of that entry, which is what the effect compares
watcherEffect(S) ==
  IF S.phase \in {"INITIALIZING_TTS", "READY_TO_START"}
  THEN S
  ELSE IF S.lastMessage # 0 /\ ~S.isLoading /\ S.messageText # S.lastSpokenMessage
       THEN speakInterviewerMessage(S, S.lastMessage)
       ELSE S

watchdogEffectKeepsCountdown(S) ==
  IF S.phase # "RECORDING"
  THEN clearSilenceTimers(S)
  ELSE LET isUserSpeaking == S.audioLevel > SPEECH_THRESHOLD
           warning == S.showSkipWarning \/ S.silenceCountdown # 0
           S1 == IF isUserSpeaking
                 THEN LET A == [S EXCEPT !.hasUserSpokenThisRecording = TRUE]
                          B == A
                      IN IF B.silenceTimerRef
                         THEN [B EXCEPT !.timers = CancelKind(@, "silence"),
                                        !.silenceTimerRef = FALSE]
                         ELSE B
                 ELSE S
       IN IF warning
          THEN S1
          ELSE IF ~S1.hasUserSpokenThisRecording /\ ExtendedSilenceElapsed(S1)
               THEN IF ~S1.silenceTimerRef THEN startSkipCountdown(S1) ELSE S1
               ELSE IF S1.hasUserSpokenThisRecording /\ ~isUserSpeaking
                    THEN IF ~S1.silenceTimerRef
                         THEN Arm([S1 EXCEPT !.silenceTimerRef = TRUE],
                                  "silence", EXTENDED_SILENCE_THRESHOLD, 0)
                         ELSE S1
                    ELSE S1

\* useEffect monitoring recorder.audioLevel; R is the state that was rendered
watchdogEffect(S) ==
  IF S.phase # "RECORDING"
  THEN clearSilenceTimers(S)
  ELSE LET isUserSpeaking == S.audioLevel > SPEECH_THRESHOLD
           warning == S.showSkipWarning \/ S.silenceCountdown # 0
           S1 == IF isUserSpeaking
                 THEN LET A == [S EXCEPT !.hasUserSpokenThisRecording = TRUE]
                          B == IF warning THEN clearSilenceTimers(A) ELSE A
                      IN IF B.silenceTimerRef
                         THEN [B EXCEPT !.timers = CancelKind(@, "silence"),
                                        !.silenceTimerRef = FALSE]
                         ELSE B
                 ELSE S
       IN IF warning
          THEN S1
          ELSE IF ~S1.hasUserSpokenThisRecording /\ ExtendedSilenceElapsed(S1)
               THEN IF ~S1.silenceTimerRef THEN startSkipCountdown(S1) ELSE S1
               ELSE IF S1.hasUserSpokenThisRecording /\ ~isUserSpeaking
                    THEN IF ~S1.silenceTimerRef
                         THEN Arm([S1 EXCEPT !.silenceTimerRef = TRUE],
                                  "silence", EXTENDED_SILENCE_THRESHOLD, 0)
                         ELSE S1
                    ELSE S1

\* ------------------------------------------------ the camera preview
\* camera.tracks is the state of the tracks of the stream that getUserMedia
\* made for the preview; cleanupStream is the cameraStream of the render
\* whose camera effect ran, which is what the cleanup of that effect reads.
MainView(p) == p \notin {"INITIALIZING_TTS", "READY_TO_START"}

\* videoRef.current: the <video> is rendered in the main view when there is
\* no camera error
videoElement(S) ==
  S.camera.mounted /\ MainView(S.phase) /\ ~S.camera.cameraError

\* the camera effect, up to the await of getUserMedia; supported:
\* navigator.mediaDevices exists
initCameraEffect(S, supported) ==
  LET S1 == [S EXCEPT !.camera.mounted = TRUE,
                      !.camera.cleanupStream = S.camera.cameraStream]
  IN IF supported
     THEN [S1 EXCEPT !.camera.request = "pending"]
     ELSE [S1 EXCEPT !.camera.request = "done", !.camera.cameraError = TRUE]

\* initCamera after the await.  The setters of an unmounted component do
\* nothing, and videoRef.current is null then.
initCameraResume(S, outcome) ==
  LET S1 == [S EXCEPT !.camera.request = "done"]
  IN IF outcome = "ok"
     THEN LET S2 == [S1 EXCEPT !.camera.tracks = "live"]
              S3 == IF S.camera.mounted
                    THEN [S2 EXCEPT !.camera.cameraStream = TRUE]
                    ELSE S2
          IN IF videoElement(S) THEN [S3 EXCEPT !.camera.srcObject = TRUE] ELSE S3
     ELSE IF S.camera.mounted THEN [S1 EXCEPT !.camera.cameraError = TRUE] ELSE S1

\* the cleanup of the camera effect
cameraCleanup(S) ==
  IF S.camera.cleanupStream /\ S.camera.tracks = "live"
  THEN [S EXCEPT !.camera.tracks = "stopped"]
  ELSE S

\* the effect on [cameraStream]
attachEffect(old, S) ==
  IF old.camera.cameraStream # S.camera.cameraStream
     /\ videoElement(S) /\ S.camera.cameraStream
  THEN [S EXCEPT !.camera.srcObject = TRUE]
  ELSE S

\* the effect on [phase, cameraStream]: its cleanup, then its body
reattachEffect(old, S) ==
  IF old.phase = S.phase /\ old.camera.cameraStream = S.camera.cameraStream
  THEN S
  ELSE LET S1 == [S EXCEPT !.timers = CancelKind(@, "reattach")]
       IN IF MainView(S.phase) THEN Arm(S1, "reattach", REATTACH_DELAY, 0) ELSE S1

\* the timeout of the re-attach effect
reattachTimeout(S) ==
  IF videoElement(S) /\ S.camera.cameraStream
  THEN [S EXCEPT !.camera.srcObject = TRUE]
  ELSE S

\* the camera effects of a commit, while the preview is mounted
cameraEffects(old, S) ==
  IF S.camera.mounted THEN reattachEffect(old, attachEffect(old, S)) ELSE S

\* the camera part of the unmount: the cleanups of the camera effect and of
\* the re-attach effect
cameraUnmount(S) ==
  [cameraCleanup(S) EXCEPT !.timers = CancelKind(@, "reattach"),
                           !.camera.mounted = FALSE,
                           !.camera.srcObject = FALSE]

\* handleEndInterviewEarly, up to its fetch
onEndInterview(S) ==
  [S EXCEPT !.net = Append(@, Request("endInterview", FALSE, 0, 0))]

\* the dependencies of the watchdog effect that are state
WatchdogDeps(S) == <<S.phase, S.audioLevel, S.showSkipWarning, S.silenceCountdown>>

\* A commit: the effects in declaration order, then the commit caused by the
\* state the watchdog effect itself set.  force: a dependency changed to a value
\* of the same class (a different audio level on the same side of the threshold).
Render(old, S, force) ==
  LET S1 == cameraEffects(old, S)
      S2 == initEffect(S1)
      S3 == watcherEffect(S2)
      S4 == IF force \/ WatchdogDeps(old) # WatchdogDeps(S3)
            THEN watchdogEffect(S3)
            ELSE S3
      S5 == IF WatchdogDeps(S3) # WatchdogDeps(S4) THEN watchdogEffect(S4) ELSE S4
  IN cameraEffects(S1, S5)

\* The 'stop' events queued by the task that just ran, each followed by its commit
DrainOne(S, small) ==
  IF S.stopEvents = <<>>
  THEN S
  ELSE LET T == mediaRecorderOnStop([S EXCEPT !.stopEvents = Tail(@)],
                                    Head(S.stopEvents), small)
       IN Render(S, T, FALSE)

Finish(S, force, small) ==
  DrainOne(DrainOne(Render(Cur, S, force), small), small)

\* the bounds of the exploration; the second pending timeout of stopRecording
\* is not counted against MaxTimers while no button was clicked
WithinBounds(S) ==
  /\ ~S.overflow
  /\ Len(S.net) <= MaxInFlight
  /\ \/ Len(S.timers) <= MaxTimers
     \/ /\ Len(S.timers) = MaxTimers + 1
        /\ Len(SelectSeq(S.timers, LAMBDA t : t.k = "stopFlush")) = 2
        /\ S.clicks = 0
  /\ S.skipCalls <= MaxSkipCalls
  /\ S.clicks <= MaxClicks
  /\ S.faults <= MaxFaults

Do(S, force, small) ==
  \E R \in {Finish(S, force, small)} : WithinBounds(R) /\ Store(R)


\* ------------------------------------------------ the silence predicate
\* isSilent on a buffer of getByteTimeDomainData (bytes, 128 is the zero line).
\* db < SILENCE_THRESHOLD with db = 20 * log10(rms + 0.0001) and
\* rms = sqrt(sum / length), sum the sum of ((x - 128) / 128)^2, is
\*   sum / length < (10^(-45/20) - 0.0001)^2               (log10, sqrt rise)
\*   (sum of (x - 128)^2) / length < 128^2 * 0.0000305081 = 0.49984...
\* No quotient of integers with a denominator up to the 1024 samples of the
\* analyser lies between 0.4998 and 0.49985, so the comparison is made in
\* ten-thousandths.
SILENCE_THRESHOLD == -45
SILENT_MEAN_SQUARE_E4 == 4998
MIDPOINT == 128

RECURSIVE SumSquares(_)
SumSquares(data) ==
  IF data = <<>>
  THEN 0
  ELSE (Head(data) - MIDPOINT) * (Head(data) - MIDPOINT) + SumSquares(Tail(data))

isSilentInverted(analyser, data) ==
  IF ~analyser
  THEN FALSE
  ELSE 10000 * SumSquares(data) > SILENT_MEAN_SQUARE_E4 * Len(data)

\* analyser: analyserRef.current is set
isSilent(analyser, data) ==
  IF ~analyser
  THEN FALSE
  ELSE 10000 * SumSquares(data) < SILENT_MEAN_SQUARE_E4 * Len(data)

\* buffers an analyser may hand out
Buffers == UNION {[1..n -> {0, 127, 128, 129, 255}] : n \in 1..MaxSamples}

NoSamples == [analyser |-> FALSE, data |-> <<>>, called |-> FALSE, result |-> FALSE]

\* ------------------------------------------------ silence detection
\* The loop of checkSilence with its clock.  silence holds
\*   now                Date.now()
\*   recorder           mediaRecorderRef.current: none (null) | recording
\*   pending            a startRecording call awaits getUserMedia
\*   interval           the interval held by analysisIntervalRef is live
\*   leaked             an interval that no ref holds any more is live
\*   flush              the timeout of stopRecording is pending
\*   recordingStartRef, silenceStartRef     the refs, 0 for null
\*   autoStopOnSilence, silenceDuration     the options of the hook
\*   quietSince         the time of the first of the silent analysis ticks in
\*                      a row that the last tick ended, 0 if it was not silent
\*   autoStopped        the last step was a tick that called
\*                      onSilenceDetected and stopRecording
ANALYSIS_INTERVAL == 100

NoLoop ==
  [now |-> ANALYSIS_INTERVAL, recorder |-> "none", pending |-> FALSE,
   interval |-> FALSE, leaked |-> FALSE, flush |-> FALSE,
   recordingStartRef |-> 0, silenceStartRef |-> 0,
   autoStopOnSilence |-> TRUE, silenceDuration |-> SILENCE_DURATION,
   quietSince |-> 0, autoStopped |-> FALSE]

\* stopRecording: the interval of the ref is cleared and the recorder, if it
\* is recording, is stopped by a timeout
loopStopRecording(D) ==
  [D EXCEPT !.interval = FALSE, !.flush = D.flush \/ D.recorder = "recording"]

checkSilenceNoFloor(D, silent) ==
  IF D.recorder # "recording" \/ ~D.autoStopOnSilence
  THEN D
  ELSE IF silent
       THEN IF D.silenceStartRef = 0
            THEN [D EXCEPT !.silenceStartRef = D.now]
            ELSE IF D.now - D.silenceStartRef >= D.silenceDuration
                 THEN [loopStopRecording(D) EXCEPT !.autoStopped = TRUE]
                 ELSE D
       ELSE [D EXCEPT !.silenceStartRef = 0]

\* checkSilence; silent: what isSilent() returns on the buffer of this tick
\* (the level it publishes is left to CheckSilence)
checkSilence(D, silent) ==
  IF D.recorder # "recording" \/ ~D.autoStopOnSilence
  THEN D
  ELSE LET recordingDuration ==
             D.now - (IF D.recordingStartRef # 0 THEN D.recordingStartRef ELSE D.now)
       IN IF recordingDuration < MIN_RECORDING_DURATION
          THEN D
          ELSE IF silent
               THEN IF D.silenceStartRef = 0
                    THEN [D EXCEPT !.silenceStartRef = D.now]
                    ELSE IF D.now - D.silenceStartRef >= D.silenceDuration
                         THEN [loopStopRecording(D) EXCEPT !.autoStopped = TRUE]
                         ELSE D
               ELSE [D EXCEPT !.silenceStartRef = 0]

\* ------------------------------------------------------------ initial state
\* The component has just mounted with the opening question: the first commit
\* ran the question-change effect, and the conversation holds the opening entry.
InitComponent ==
  /\ phase = "INITIALIZING_TTS"
  /\ error = FALSE
  /\ silenceCountdown = 0
  /\ showSkipWarning = FALSE
  /\ lastSpokenMessage = 0
  /\ hasSpokenCurrentQuestion = FALSE
  /\ hasUserSpokenThisRecording = FALSE
  /\ recordingStartTimeRef = "null"
  /\ silenceTimerRef = FALSE
  /\ countdownTimerRef = FALSE
  /\ isAutoSkippingRef = FALSE
  /\ currentQuestionIdRef = 1
  /\ isCountdownActiveRef = FALSE
  /\ isManuallySkippingRef = FALSE
  /\ sessions = [s \in SessionIds |-> NoSession]
  /\ mediaRecorderRef = 0
  /\ audioStreamRef = 0
  /\ audioContextRef = 0
  /\ analyserRef = 0
  /\ analysisIntervalRef = 0
  /\ isRecording = FALSE
  /\ audioLevel = QuietLevel
  /\ isReady = FALSE
  /\ utterance = "none"
  /\ canceledEvents = 0
  /\ spoken = <<>>
  /\ speechSynthesis \in BOOLEAN
  /\ tts = [mounted |-> FALSE, isSupported |-> speechSynthesis, error |-> FALSE,
            isSpeaking |-> FALSE, selectedVoice |-> FALSE,
            hasInitialized |-> FALSE, isReadyRef |-> FALSE]
  /\ synthesis = [queue |-> <<>>, cancelled |-> {}, voices |-> FALSE,
                  onvoiceschanged |-> FALSE, pauses |-> {}]
  /\ calls = <<>>
  /\ camera = [mounted |-> FALSE, request |-> "none", cameraStream |-> FALSE,
               cleanupStream |-> FALSE, cameraError |-> FALSE,
               tracks |-> "none", srcObject |-> FALSE]
  /\ currentQuestion = 1
  /\ lastMessage = 1
  /\ messageText \in {0, 1}
  /\ isLoading = FALSE
  /\ timers = <<>>
  /\ net = <<>>
  /\ serverQuestion = 1
  /\ commit = "idle"
  /\ mediaDevices \in BOOLEAN
  /\ skipCalls = 0
  /\ clicks = 0
  /\ faults = IF mediaDevices THEN 0 ELSE 1

\* bestVoice: -1 while selectBestVoice was not called
Init ==
  /\ InitComponent
  /\ voices = <<>>
  /\ bestVoice = -1
  /\ silence = NoLoop
  /\ samples = NoSamples

Click(S) == [S EXCEPT !.clicks = @ + 1]

Fault(S, failed) == IF failed THEN [S EXCEPT !.faults = @ + 1] ELSE S

\* the fields of the state that Collectable reads
Refs ==
  [sessions |-> sessions, mediaRecorderRef |-> mediaRecorderRef,
   audioStreamRef |-> audioStreamRef, audioContextRef |-> audioContextRef,
   analyserRef |-> analyserRef, analysisIntervalRef |-> analysisIntervalRef]

Quiescent == \A s \in SessionIds : ~Collectable(Refs, s)

Idle == commit = "idle" /\ Quiescent

\* the objects of a finished session are dropped
CollectSession(s) ==
  /\ Collectable(Refs, s)
  /\ sessions' = [sessions EXCEPT ![s] = NoSession]
  /\ UNCHANGED <<phase, error, silenceCountdown, showSkipWarning,
                 lastSpokenMessage, hasSpokenCurrentQuestion,
                 hasUserSpokenThisRecording, recordingStartTimeRef,
                 silenceTimerRef, countdownTimerRef, isAutoSkippingRef,
                 currentQuestionIdRef, isCountdownActiveRef,
                 isManuallySkippingRef, mediaRecorderRef, audioStreamRef,
                 audioContextRef, analyserRef, analysisIntervalRef, isRecording,
                 audioLevel, isReady, utterance, canceledEvents, spoken, tts,
                 synthesis, calls, voices, bestVoice, silence, samples, camera,
          currentQuestion,
                 lastMessage, messageText, isLoading, timers, net, serverQuestion, commit, mediaDevices,
                 speechSynthesis, skipCalls, clicks, faults>>

\* ------------------------------------------------------------ speech output
\* markReady (useTextToSpeech.ts)
MarkReady ==
  /\ Idle /\ speechSynthesis /\ ~isReady
  /\ Do([Cur EXCEPT !.isReady = TRUE], FALSE, FALSE)
  /\ UNCHANGED mediaDevices

\* the Begin Interview button
BeginInterview ==
  /\ Idle /\ phase = "READY_TO_START"
  /\ Do(handleBeginInterview(Cur), FALSE, FALSE)
  /\ UNCHANGED mediaDevices

\* utterance.onstart -> onStart
UtteranceStart ==
  /\ Idle /\ utterance = "pending"
  /\ Do(ttsOnStart([Cur EXCEPT !.utterance = "speaking"]), FALSE, FALSE)
  /\ UNCHANGED mediaDevices

\* utterance.onend -> onEnd
UtteranceEnd ==
  /\ Idle /\ utterance = "speaking"
  /\ Do(ttsOnEnd([Cur EXCEPT !.utterance = "none"]), FALSE, FALSE)
  /\ UNCHANGED mediaDevices

\* utterance.onerror (not 'interrupted') -> onError
UtteranceError ==
  /\ Idle /\ utterance \in {"pending", "speaking"}
  /\ Do(ttsOnError([Fault(Cur, TRUE) EXCEPT !.utterance = "none"]), FALSE, FALSE)
  /\ UNCHANGED mediaDevices

\* utterance.onerror with error "canceled" -> onError
UtteranceCanceled ==
  /\ Idle /\ canceledEvents > 0
  /\ Do(ttsOnError([Cur EXCEPT !.canceledEvents = @ - 1]), FALSE, FALSE)
  /\ UNCHANGED mediaDevices

\* ------------------------------------------------------------ user gestures
\* the Retry button (error shown) and the Start Recording button (no error)
ClickStartRecording ==
  /\ Idle /\ phase = "IDLE" /\ (error \/ ~isLoading)
  /\ Do(startListening([Click(Cur) EXCEPT !.error = FALSE], mediaDevices), FALSE, FALSE)
  /\ UNCHANGED mediaDevices

\* the Stop Recording button
ClickStopRecording ==
  /\ Idle /\ phase = "RECORDING"
  /\ Do(stopRecording(Click(Cur)), FALSE, FALSE)
  /\ UNCHANGED mediaDevices

SkipButtonEnabled ==
  /\ phase \notin {"INITIALIZING_TTS", "READY_TO_START"}
  /\ phase \notin {"PROCESSING_STT", "PROCESSING_ANSWER"}
  /\ ~isLoading

\* the Skip Question button
ClickSkip ==
  /\ Idle /\ SkipButtonEnabled
  /\ Do(handleSkip(Click(Cur)), FALSE, FALSE)
  /\ UNCHANGED mediaDevices

\* ------------------------------------------------------------ capturer events
\* getUserMedia settles for the startRecording call that owns session s
GetUserMediaSettles(s, outcome) ==
  /\ Idle /\ sessions[s].st = "pending"
  /\ \E small \in BOOLEAN :
       Do(startRecordingResume(Fault(Cur, outcome # "ok"), s, outcome), FALSE, small)
  /\ UNCHANGED mediaDevices

\* checkSilence stops the recording no earlier than MIN_RECORDING_DURATION plus
\* silenceDuration after it started: a timer that was armed before the
\* recording was asked for (before the "elapsed" mark of startListening) with a
\* delay that is not longer has fired by then.
SilenceStopDue(seq) ==
  \A i \in 1..Len(seq) :
    (\E j \in (i + 1)..Len(seq) : seq[j].k = "elapsed")
      => seq[i].d > MIN_RECORDING_DURATION + SILENCE_DURATION

\* a skip is under way: a skip flag is set, the timeout of handleAutoSkip is
\* pending or the skip request is in flight
SkipPending(S) ==
  \/ S.isAutoSkippingRef
  \/ S.isManuallySkippingRef
  \/ HasTimer(S.timers, "autoSkip")
  \/ \E i \in 1..Len(S.net) : S.net[i].k = "skip"

\* one run of checkSilence: the level is published; check = "stop" when the
\* silence has lasted silenceDuration
CheckSilence(check) ==
  /\ Idle
  /\ \E s \in SessionIds : sessions[s].itv
  /\ mediaRecorderRef # 0 /\ sessions[mediaRecorderRef].rec = "recording"
  /\ check = "stop" => SilenceStopDue(timers)
  /\ CASE check = "quiet" -> Do([Cur EXCEPT !.audioLevel = QuietLevel], TRUE, FALSE)
       [] check = "loud" -> Do([Cur EXCEPT !.audioLevel = LoudLevel], TRUE, FALSE)
       [] check = "stop" ->
            Do([stopRecording(Cur) EXCEPT
                  !.sessions[mediaRecorderRef].ownStop = ~SkipPending(Cur)],
               TRUE, FALSE)
  /\ UNCHANGED mediaDevices

Checks == {"quiet", "loud", "stop"}

\* mediaRecorder.onerror of session s: the platform inactivates the recorder,
\* fires 'error', then fires 'stop'
RecorderError(s) ==
  /\ Idle /\ sessions[s].rec = "recording"
  /\ \E small \in BOOLEAN :
       Do(mediaRecorderOnError([Fault(Cur, TRUE) EXCEPT
                                  !.sessions[s].rec = "inactive",
                                  !.stopEvents = <<s>>]), FALSE, small)
  /\ UNCHANGED mediaDevices


\* ------------------------------------------------------------ timers firing
Fires(j, kinds) ==
  /\ Idle
  /\ j \in 1..Len(timers)
  /\ timers[j].k \in kinds
  /\ MayFire(timers, j)

Fired(j) == [Cur EXCEPT !.timers = RemoveAt(@, j)]

\* setTimeout of stopRecording
StopFlushTimer(j) ==
  /\ Fires(j, {"stopFlush"})
  /\ \E small \in BOOLEAN : Do(stopFlushTimeout(Fired(j)), FALSE, small)
  /\ UNCHANGED mediaDevices

\* setTimeout of handleAutoSkip
AutoSkipTimer(j) ==
  /\ Fires(j, {"autoSkip"})
  /\ Do(onSkip(Fired(j), FALSE), FALSE, FALSE)
  /\ UNCHANGED mediaDevices

\* setTimeout(startListening, ...) of the tts callbacks and of the retry paths
StartListeningTimer(j) ==
  /\ Fires(j, {"ttsEnd", "ttsError", "retry"})
  /\ Do(startListening(Fired(j), mediaDevices), FALSE, FALSE)
  /\ UNCHANGED mediaDevices

\* setTimeout of the watchdog effect (silence after speech)
SilenceTimer(j) ==
  /\ Fires(j, {"silence"})
  /\ Do(startSkipCountdown(Fired(j)), FALSE, FALSE)
  /\ UNCHANGED mediaDevices

\* setInterval of startSkipCountdown
CountdownTimer(j) ==
  /\ Fires(j, {"countdown"})
  /\ Do(countdownTick(Fired(j), timers[j].c), FALSE, FALSE)
  /\ UNCHANGED mediaDevices

\* 7 s have passed since recordingStartTimeRef was set
ExtendedSilencePasses(j) ==
  /\ Fires(j, {"elapsed"})
  /\ Do(Fired(j), FALSE, FALSE)
  /\ UNCHANGED mediaDevices

\* setTimeout of handleSkipQuestion / handleAnswerSubmission: the next question
\* becomes the session's current question and the conversation's last entry
\* The text of the entry that a timer appends.  After an answer it is the
\* service's acknowledgement and question, any text (the opening entry has
\* text 1); after a skip it begins with the page's own transition sentence,
\* which no question's text is.  Nothing reads the text before the entry is
\* appended.
EntryTexts(t) == IF t.k = "nextAfterAnswer" THEN Texts ELSE {t.c}

NextQuestionTimer(j, text) ==
  /\ Fires(j, {"nextQuestion", "nextAfterAnswer"})
  /\ text \in EntryTexts(timers[j])
  /\ Store([Fired(j) EXCEPT !.currentQuestion = timers[j].c,
                            !.lastMessage = timers[j].c,
                            !.messageText = text,
                            !.skipCalls = 0,
                            !.commit = "reset"])
  /\ UNCHANGED mediaDevices

\* the question-change effect of that commit
QuestionChangeEffect ==
  /\ commit = "reset" /\ Quiescent
  /\ LET S == questionChangeEffect(Cur)
     IN Store([S EXCEPT !.commit = IF WatchdogDeps(S) # WatchdogDeps(Cur)
                                   THEN "effectsWatch" ELSE "effects"])
  /\ UNCHANGED mediaDevices

\* the remaining effects of that commit
CommitEffects ==
  /\ commit \in {"effects", "effectsWatch"} /\ Quiescent
  /\ Store(Render(Cur, [Cur EXCEPT !.commit = "idle"], commit = "effectsWatch"))
  /\ UNCHANGED mediaDevices

\* setTimeout(() => setViewMode('summary')): the component unmounts; the
\* cleanups of useVoiceRecorder and of the timers effect run
SummaryTimer(j) ==
  /\ Fires(j, {"summary"})
  /\ \E small \in BOOLEAN :
       LET S == cleanup(clearSilenceTimers([Fired(j) EXCEPT !.commit = "unmounted"]))
           R == DrainOne(S, small)
       IN WithinBounds(R) /\ Store(R)
  /\ UNCHANGED mediaDevices

\* ------------------------------------------------------------ responses
Pending(i, k) ==
  /\ Idle
  /\ i \in 1..Len(net)
  /\ net[i].k = k

Answered(i) == [Cur EXCEPT !.net = RemoveAt(@, i)]

\* the transcription request of handleRecordingComplete settles
TranscriptionResponse(i, result) ==
  /\ Pending(i, "stt")
  /\ Do(handleRecordingCompleteResume(Fault(Answered(i), result = "failed"),
                                       net[i], result), FALSE, FALSE)
  /\ UNCHANGED mediaDevices

\* handleSkipQuestion after its fetch; ok: the service answered with success
skipSettled(S, ok) ==
  LET S1 == IF ~ok
            THEN S
            ELSE IF S.serverQuestion < MaxQuestions
                 THEN Arm([S EXCEPT !.serverQuestion = @ + 1],
                          "nextQuestion", SKIP_NEXT_DELAY, S.serverQuestion + 1)
                 ELSE Arm(S, "summary", SKIP_SUMMARY_DELAY, 0)
  IN [S1 EXCEPT !.isLoading = FALSE]

SkipResponse(i, ok) ==
  /\ Pending(i, "skip")
  /\ LET S == skipSettled(Fault(Answered(i), ~ok), ok)
     IN Do(IF net[i].manual THEN handleSkipFinally(S) ELSE S, FALSE, FALSE)
  /\ UNCHANGED mediaDevices

\* handleAnswerSubmission after its fetch, then the end of handleRecordingComplete
answerSettled(S, ok) ==
  LET S1 == IF ~ok
            THEN S
            ELSE IF S.serverQuestion < MaxQuestions
                 THEN Arm([S EXCEPT !.serverQuestion = @ + 1],
                          "nextAfterAnswer", ANSWER_NEXT_DELAY, S.serverQuestion + 1)
                 ELSE Arm([S EXCEPT !.lastMessage = MaxQuestions + 1,
                                    !.messageText = MaxQuestions + 1],
                          "summary", ANSWER_SUMMARY_DELAY, 0)
  IN [S1 EXCEPT !.isLoading = FALSE]

AnswerResponse(i, ok) ==
  /\ Pending(i, "answer")
  /\ Do([answerSettled(Fault(Answered(i), ~ok), ok) EXCEPT !.phase = "IDLE"],
        FALSE, FALSE)
  /\ UNCHANGED mediaDevices

\* ------------------------------------------------ the capturer on its own
\* useVoiceRecorder mounted by a client that calls its actions in any order;
\* the client's onRecordingComplete does nothing, its onError notes the error.
CurClient == [Cur EXCEPT !.host = "client"]

DrainClient(S) ==
  IF S.stopEvents = <<>>
  THEN S
  ELSE mediaRecorderOnStop([S EXCEPT !.stopEvents = Tail(@)], Head(S.stopEvents), FALSE)

DoClient(S) ==
  \E R \in {DrainClient(DrainClient(S))} : WithinBounds(R) /\ Store(R)

CallStartRecording ==
  /\ Quiescent
  /\ DoClient(startRecording(CurClient, mediaDevices))
  /\ UNCHANGED mediaDevices

CallStopRecording ==
  /\ Quiescent
  /\ DoClient([stopRecording(CurClient) EXCEPT
                !.sessions = [s \in SessionIds |->
                               IF @[s].st = "pending"
                               THEN [@[s] EXCEPT !.early = TRUE]
                               ELSE @[s]]])
  /\ UNCHANGED mediaDevices

CallResetRecording ==
  /\ Quiescent
  /\ DoClient(resetRecording(CurClient))
  /\ UNCHANGED mediaDevices

ClientGetUserMediaSettles(s, outcome) ==
  /\ Quiescent /\ sessions[s].st = "pending"
  /\ DoClient(startRecordingResume(CurClient, s, outcome))
  /\ UNCHANGED mediaDevices

ClientStopFlushTimer(j) ==
  /\ Quiescent
  /\ j \in 1..Len(timers) /\ timers[j].k = "stopFlush" /\ MayFire(timers, j)
  /\ DoClient(stopFlushTimeout([CurClient EXCEPT !.timers = RemoveAt(@, j)]))
  /\ UNCHANGED mediaDevices

ClientCheckSilence(check) ==
  /\ Quiescent
  /\ \E s \in SessionIds : sessions[s].itv
  /\ mediaRecorderRef # 0 /\ sessions[mediaRecorderRef].rec = "recording"
  /\ CASE check = "quiet" -> DoClient([CurClient EXCEPT !.audioLevel = QuietLevel])
       [] check = "loud" -> DoClient([CurClient EXCEPT !.audioLevel = LoudLevel])
       [] check = "stop" -> DoClient(stopRecording(CurClient))
  /\ UNCHANGED mediaDevices

ClientRecorderError(s) ==
  /\ Quiescent /\ sessions[s].rec = "recording"
  /\ DoClient(mediaRecorderOnError([CurClient EXCEPT !.sessions[s].rec = "inactive",
                                                    !.stopEvents = <<s>>]))
  /\ UNCHANGED mediaDevices

NextCapturer ==
  \/ CallStartRecording
  \/ CallStopRecording
  \/ CallResetRecording
  \/ \E s \in SessionIds, outcome \in GumOutcomes : ClientGetUserMediaSettles(s, outcome)
  \/ \E j \in 1..Len(timers) : ClientStopFlushTimer(j)
  \/ \E check \in Checks : ClientCheckSilence(check)
  \/ \E s \in SessionIds : ClientRecorderError(s)
  \/ \E s \in SessionIds : CollectSession(s)

SpecCapturer == Init /\ [][NextCapturer]_vars

\* ------------------------------------------------ the driver on its own
\* useTextToSpeech mounted by a client that calls speak and stop in any order
\* and counts, for each speak call, the onStart, onEnd and onError calls it got.
\* synthesis is window.speechSynthesis: its queue holds utterances [u, st],
\* st queued | speaking, with u = 0 for the warm-up utterance and u = i for the
\* utterance of the i-th speak call; cancelled holds the utterances that
\* cancel() removed and whose 'error' event is still to be delivered.
\* Every speak call that queues an utterance arms a keep-alive interval, the
\* timer "keepAlive" with c = u; pauses holds [by, on] for every pause() and
\* resume() that the interval of call by made while utterance on was spoken.
\* (After resume() the platform is not paused, so the timeout of onpause finds
\* nothing to resume.)
WARMUP_TIMEOUT_1 == 100
WARMUP_TIMEOUT_2 == 300
WARMUP_TIMEOUT_3 == 500
NO_VOICES_DELAY == 500
KEEP_ALIVE_PERIOD == 10000

WarmUp == 0

\* window.speechSynthesis.cancel()
synthesisCancel(S) ==
  LET gone == {[u |-> S.synthesis.queue[i].u,
                err |-> IF S.synthesis.queue[i].st = "speaking"
                        THEN "interrupted" ELSE "canceled"] :
               i \in 1..Len(S.synthesis.queue)}
  IN [S EXCEPT !.synthesis.queue = <<>>,
               !.synthesis.cancelled = @ \cup gone]

\* window.speechSynthesis.speak(utterance)
synthesisSpeak(S, u) ==
  [S EXCEPT !.synthesis.queue = Append(@, [u |-> u, st |-> "queued"])]

\* onStart, onEnd, onError options of the client
clientOnStart(S, u) == [S EXCEPT !.calls[u].starts = @ + 1]

clientOnEnd(S, u) == [S EXCEPT !.calls[u].ends = @ + 1]

clientOnSpeechError(S, u) == [S EXCEPT !.calls[u].errors = @ + 1]

markReady(S) ==
  IF S.tts.isReadyRef
  THEN S
  ELSE [S EXCEPT !.tts.isReadyRef = TRUE, !.isReady = TRUE]

\* the timeout that loadVoices arms when no voice is there yet
noVoicesTimeout(S) ==
  IF ~S.tts.isReadyRef /\ ~S.tts.hasInitialized
  THEN [S EXCEPT !.tts.hasInitialized = TRUE, !.tts.isReadyRef = TRUE,
                 !.isReady = TRUE]
  ELSE S

loadVoicesWithoutGrace(S) ==
  IF S.synthesis.voices
  THEN LET S1 == [S EXCEPT !.tts.selectedVoice = TRUE]
       IN IF ~S1.tts.hasInitialized
          THEN LET S2 == synthesisCancel([S1 EXCEPT !.tts.hasInitialized = TRUE])
                   S3 == synthesisSpeak(S2, WarmUp)
                   S4 == Arm(S3, "markReady", WARMUP_TIMEOUT_1, 0)
                   S5 == Arm(S4, "markReady", WARMUP_TIMEOUT_2, 0)
               IN Arm(S5, "markReady", WARMUP_TIMEOUT_3, 0)
          ELSE markReady(S1)
  ELSE S

loadVoices(S) ==
  IF S.synthesis.voices
  THEN LET S1 == [S EXCEPT !.tts.selectedVoice = TRUE]
       IN IF ~S1.tts.hasInitialized
          THEN LET S2 == synthesisCancel([S1 EXCEPT !.tts.hasInitialized = TRUE])
                   S3 == synthesisSpeak(S2, WarmUp)
                   S4 == Arm(S3, "markReady", WARMUP_TIMEOUT_1, 0)
                   S5 == Arm(S4, "markReady", WARMUP_TIMEOUT_2, 0)
               IN Arm(S5, "markReady", WARMUP_TIMEOUT_3, 0)
          ELSE markReady(S1)
  ELSE Arm(S, "noVoices", NO_VOICES_DELAY, 0)

initializeEffectUnchecked(S) ==
  [loadVoices([S EXCEPT !.tts.isSupported = TRUE])
     EXCEPT !.synthesis.onvoiceschanged = TRUE]

\* the initialize effect
initializeEffect(S) ==
  IF ~S.speechSynthesis
  THEN [S EXCEPT !.tts.isSupported = FALSE, !.tts.error = TRUE]
  ELSE [loadVoices([S EXCEPT !.tts.isSupported = TRUE])
          EXCEPT !.synthesis.onvoiceschanged = TRUE]

\* the commit after a handler of the driver: the initialize effect depends on
\* selectedVoice; its cleanup runs, then the effect again
driverCommit(old, S) ==
  IF S.tts.selectedVoice # old.tts.selectedVoice
  THEN initializeEffect([S EXCEPT !.synthesis.onvoiceschanged = FALSE])
  ELSE S

utteranceOnStart(S, u) ==
  clientOnStart([S EXCEPT !.tts.isSpeaking = TRUE, !.tts.error = FALSE], u)

\* clearInterval(keepAlive) in the handlers of the u-th call
clearKeepAlive(S, u) ==
  [S EXCEPT !.timers = SelectSeq(@, LAMBDA t : ~(t.k = "keepAlive" /\ t.c = u))]

\* utterance.onend as assigned last (after the interval is armed)
utteranceOnEnd(S, u) ==
  clientOnEnd([clearKeepAlive(S, u) EXCEPT !.tts.isSpeaking = FALSE], u)

\* the callback of the keep-alive interval of the u-th call;
\* window.speechSynthesis.speaking: an utterance has begun and not ended
keepAliveTick(S, u) ==
  IF S.synthesis.queue = <<>> \/ Head(S.synthesis.queue).st # "speaking"
  THEN clearKeepAlive(S, u)
  ELSE [S EXCEPT !.synthesis.pauses =
                   @ \cup {[by |-> u, on |-> Head(S.synthesis.queue).u]}]

utteranceOnError(S, u, err) ==
  LET S1 == [S EXCEPT !.tts.isSpeaking = FALSE]
  IN IF err # "interrupted"
     THEN clientOnSpeechError([S1 EXCEPT !.tts.error = TRUE], u)
     ELSE S1

speakWithoutCancel(S, empty) ==
  LET u == Len(S.calls) + 1
      S1 == [S EXCEPT !.calls = Append(@, [starts |-> 0, ends |-> 0, errors |-> 0])]
  IN IF ~S.speechSynthesis
     THEN clientOnSpeechError([S1 EXCEPT !.tts.error = TRUE], u)
     ELSE IF empty
          THEN S1
          ELSE Arm(synthesisSpeak(S1, u), "keepAlive", KEEP_ALIVE_PERIOD, u)

\* speak; empty: the text is empty after trimming.  The call is the u-th.
speak(S, empty) ==
  LET u == Len(S.calls) + 1
      S1 == [S EXCEPT !.calls = Append(@, [starts |-> 0, ends |-> 0, errors |-> 0])]
  IN IF ~S.speechSynthesis
     THEN clientOnSpeechError([S1 EXCEPT !.tts.error = TRUE], u)
     ELSE IF empty
          THEN S1
          ELSE Arm(synthesisSpeak(synthesisCancel(S1), u),
                   "keepAlive", KEEP_ALIVE_PERIOD, u)

stop(S) ==
  IF S.speechSynthesis
  THEN [synthesisCancel(S) EXCEPT !.tts.isSpeaking = FALSE]
  ELSE S

DoDriver(S) ==
  \E R \in {driverCommit(Cur, S)} : Len(R.calls) <= MaxSpeaks /\ Store(R)

\* the hook is mounted: its initialize effect runs
DriverMount ==
  /\ ~tts.mounted
  /\ DoDriver(initializeEffect([Cur EXCEPT !.tts.mounted = TRUE]))
  /\ UNCHANGED mediaDevices

\* the platform has loaded its voices and fires 'voiceschanged'
VoicesChanged ==
  /\ speechSynthesis
  /\ LET S == [Cur EXCEPT !.synthesis.voices = TRUE]
     IN DoDriver(IF synthesis.onvoiceschanged THEN loadVoices(S) ELSE S)
  /\ UNCHANGED mediaDevices

\* one of the three fallback timeouts of loadVoices
MarkReadyTimeout(j) ==
  /\ j \in 1..Len(timers) /\ timers[j].k = "markReady" /\ MayFire(timers, j)
  /\ DoDriver(markReady([Cur EXCEPT !.timers = RemoveAt(@, j)]))
  /\ UNCHANGED mediaDevices

NoVoicesTimeout(j) ==
  /\ j \in 1..Len(timers) /\ timers[j].k = "noVoices" /\ MayFire(timers, j)
  /\ DoDriver(noVoicesTimeout([Cur EXCEPT !.timers = RemoveAt(@, j)]))
  /\ UNCHANGED mediaDevices

\* the keep-alive interval of a speak call comes round; it stays armed unless
\* its callback clears it
KeepAliveTick(j) ==
  /\ j \in 1..Len(timers) /\ timers[j].k = "keepAlive" /\ MayFire(timers, j)
  /\ DoDriver(keepAliveTick([Cur EXCEPT !.timers = Append(RemoveAt(@, j), timers[j])],
                            timers[j].c))
  /\ UNCHANGED mediaDevices

CallSpeak(empty) ==
  /\ tts.mounted
  /\ DoDriver(speak(Cur, empty))
  /\ UNCHANGED mediaDevices

CallStop ==
  /\ tts.mounted
  /\ DoDriver(stop(Cur))
  /\ UNCHANGED mediaDevices

QueueHead == Head(synthesis.queue)

Popped == [Cur EXCEPT !.synthesis.queue = Tail(@)]

\* the platform begins the utterance at the head of its queue: 'start'
PlatformStart ==
  /\ synthesis.queue # <<>> /\ QueueHead.st = "queued"
  /\ LET S == [Cur EXCEPT !.synthesis.queue[1].st = "speaking"]
     IN DoDriver(IF QueueHead.u = WarmUp THEN S ELSE utteranceOnStart(S, QueueHead.u))
  /\ UNCHANGED mediaDevices

\* the utterance being spoken completes: 'end'
PlatformEnd ==
  /\ synthesis.queue # <<>> /\ QueueHead.st = "speaking"
  /\ DoDriver(IF QueueHead.u = WarmUp
              THEN markReady(Popped)
              ELSE utteranceOnEnd(Popped, QueueHead.u))
  /\ UNCHANGED mediaDevices

\* the platform fails on the utterance at the head of its queue: 'error' with
\* an error other than "interrupted" and "canceled"
PlatformError ==
  /\ synthesis.queue # <<>>
  /\ DoDriver(IF QueueHead.u = WarmUp
              THEN markReady(Popped)
              ELSE utteranceOnError(Popped, QueueHead.u, "synthesis-failed"))
  /\ UNCHANGED mediaDevices

\* the 'error' event of an utterance that cancel() removed
CancelledEvent(z) ==
  /\ z \in synthesis.cancelled
  /\ LET S == [Cur EXCEPT !.synthesis.cancelled = @ \ {z}]
     IN DoDriver(IF z.u = WarmUp THEN markReady(S) ELSE utteranceOnError(S, z.u, z.err))
  /\ UNCHANGED mediaDevices

NextDriver ==
  \/ DriverMount
  \/ VoicesChanged
  \/ \E j \in 1..Len(timers) : MarkReadyTimeout(j)
  \/ \E j \in 1..Len(timers) : NoVoicesTimeout(j)
  \/ \E j \in 1..Len(timers) : KeepAliveTick(j)
  \/ \E empty \in BOOLEAN : CallSpeak(empty)
  \/ CallStop
  \/ PlatformStart
  \/ PlatformEnd
  \/ PlatformError
  \/ \E z \in synthesis.cancelled : CancelledEvent(z)

SpecDriver == Init /\ [][NextDriver]_vars

\* The same with what the event loop guarantees: the mount effect runs and a
\* timeout that has expired is run.  Nothing is assumed of the platform: the
\* voices need not arrive and an utterance need not be started or ended.
SpecDriverLive ==
  /\ SpecDriver
  /\ WF_vars(DriverMount)
  /\ WF_vars(\E j \in 1..Len(timers) : MarkReadyTimeout(j))
  /\ WF_vars(\E j \in 1..Len(timers) : NoVoicesTimeout(j))

\* ------------------------------------------------ voice selection
\* A voice is [name, lang]; lang is the language tag split at its hyphen.
\* The result of selectBestVoice is the position of the voice in the list,
\* 0 for null.
PREFERRED_VOICES ==
  <<"Google US English", "Microsoft David", "Microsoft Zira", "Samantha",
    "Alex", "Google UK English Female", "Google UK English Male">>

VoiceNames ==
  {"Google US English", "Microsoft Zira Desktop", "Google UK English Female",
   "Alex and Samantha", "Thomas"}

VoiceLangs == {<<"en", "US">>, <<"en", "GB">>, <<"fr", "FR">>}

\* name.includes(preferredName), for the names of VoiceNames
Includes(name, preferredName) ==
  CASE name = "Google US English" -> preferredName = "Google US English"
    [] name = "Microsoft Zira Desktop" -> preferredName = "Microsoft Zira"
    [] name = "Google UK English Female" -> preferredName = "Google UK English Female"
    [] name = "Alex and Samantha" -> preferredName \in {"Alex", "Samantha"}
    [] OTHER -> FALSE

\* lang.startsWith('en')
StartsWithEn(lang) == lang[1] = "en"

\* Array.prototype.find with the predicate of the loop over PREFERRED_VOICES:
\* the first position from i on, 0 if there is none
RECURSIVE FindPreferred(_, _, _)
FindPreferred(list, preferredName, i) ==
  IF i > Len(list)
  THEN 0
  ELSE IF Includes(list[i].name, preferredName) /\ StartsWithEn(list[i].lang)
       THEN i
       ELSE FindPreferred(list, preferredName, i + 1)

\* voices.find(v => v.lang.startsWith('en'))
RECURSIVE FindEnglish(_, _)
FindEnglish(list, i) ==
  IF i > Len(list)
  THEN 0
  ELSE IF StartsWithEn(list[i].lang) THEN i ELSE FindEnglish(list, i + 1)

\* the loop over PREFERRED_VOICES from entry p on, then the two fallbacks
RECURSIVE PreferredLoop(_, _)
PreferredLoop(list, p) ==
  IF p > Len(PREFERRED_VOICES)
  THEN IF FindEnglish(list, 1) # 0 THEN FindEnglish(list, 1) ELSE 1
  ELSE IF FindPreferred(list, PREFERRED_VOICES[p], 1) # 0
       THEN FindPreferred(list, PREFERRED_VOICES[p], 1)
       ELSE PreferredLoop(list, p + 1)

FirstEnglishOnly(list) ==
  IF Len(list) = 0
  THEN 0
  ELSE IF FindEnglish(list, 1) # 0 THEN FindEnglish(list, 1) ELSE 1

selectBestVoice(list) ==
  IF Len(list) = 0 THEN 0 ELSE PreferredLoop(list, 1)

Voices == [name : VoiceNames, lang : VoiceLangs]

VoiceLists == UNION {[1..n -> Voices] : n \in 0..MaxVoices}

InitVoices ==
  /\ InitComponent /\ speechSynthesis /\ mediaDevices
  /\ voices \in VoiceLists
  /\ bestVoice = -1
  /\ silence = NoLoop /\ samples = NoSamples /\ messageText = 1

\* loadVoices: selectBestVoice(voices)
SelectVoice ==
  /\ bestVoice = -1
  /\ Store([Cur EXCEPT !.bestVoice = selectBestVoice(voices)])
  /\ UNCHANGED mediaDevices

NextVoices == SelectVoice

SpecVoices == InitVoices /\ [][NextVoices]_vars

\* ------------------------------------------------ the silence predicate on its own
InitSamples ==
  /\ InitComponent
  /\ speechSynthesis /\ mediaDevices
  /\ voices = <<>> /\ bestVoice = -1
  /\ silence = NoLoop
  /\ messageText = 1
  /\ samples \in [analyser : BOOLEAN, data : Buffers, called : {FALSE},
                  result : {FALSE}]

\* isSilent is called on the buffer
ClassifySamples ==
  /\ ~samples.called
  /\ Store([Cur EXCEPT !.samples.called = TRUE,
                       !.samples.result = isSilent(samples.analyser, samples.data)])
  /\ UNCHANGED mediaDevices

SpecSamples == InitSamples /\ [][ClassifySamples]_vars

\* ------------------------------------------------ the silence loop on its own
InitSilence ==
  /\ InitComponent
  /\ speechSynthesis /\ mediaDevices
  /\ voices = <<>> /\ bestVoice = -1
  /\ samples = NoSamples /\ messageText = 1
  /\ \E auto \in BOOLEAN, duration \in {SILENCE_DURATION, 5 * ANALYSIS_INTERVAL} :
       silence = [NoLoop EXCEPT !.autoStopOnSilence = auto,
                                !.silenceDuration = duration]

\* time passes; the timeout of stopRecording (STOP_FLUSH_DELAY) has run by then
LoopTimePasses ==
  /\ silence.now + ANALYSIS_INTERVAL <= MaxTime
  /\ ~silence.flush
  /\ Store([Cur EXCEPT !.silence.now = @ + ANALYSIS_INTERVAL,
                       !.silence.autoStopped = FALSE])
  /\ UNCHANGED mediaDevices

\* startRecording up to its await
LoopStartRecording ==
  /\ ~silence.pending
  /\ Store([Cur EXCEPT !.silence.silenceStartRef = 0,
                       !.silence.recordingStartRef = 0,
                       !.silence.pending = TRUE,
                       !.silence.quietSince = 0,
                       !.silence.autoStopped = FALSE])
  /\ UNCHANGED mediaDevices

\* startRecording after getUserMedia resolved: the recorder is started and a
\* new interval takes the place of the old one in analysisIntervalRef
LoopGetUserMediaSettles ==
  /\ silence.pending
  /\ Store([Cur EXCEPT !.silence.pending = FALSE,
                       !.silence.recorder = "recording",
                       !.silence.recordingStartRef = silence.now,
                       !.silence.leaked = silence.leaked \/ silence.interval,
                       !.silence.interval = TRUE,
                       !.silence.autoStopped = FALSE])
  /\ UNCHANGED mediaDevices

\* stopRecording called by the client
LoopStopRecording ==
  /\ Store([Cur EXCEPT !.silence =
                         loopStopRecording([@ EXCEPT !.autoStopped = FALSE])])
  /\ UNCHANGED mediaDevices

\* the timeout of stopRecording: the recorder stops, onstop runs cleanup
LoopStopFlush ==
  /\ silence.flush
  /\ Store([Cur EXCEPT !.silence.flush = FALSE,
                       !.silence.recorder = "none",
                       !.silence.interval =
                          IF silence.recorder = "recording" THEN FALSE ELSE @,
                       !.silence.autoStopped = FALSE])
  /\ UNCHANGED mediaDevices

\* what isSilent returns on the buffers of a recording
Classes == {isSilent(TRUE, data) : data \in Buffers}

\* an analysis interval comes round and runs checkSilence; silent is what
\* isSilent returns on the buffer of the tick
LoopTick(silent) ==
  /\ silence.interval \/ silence.leaked
  /\ LET quiet == silence.recorder = "recording" /\ silent
         D == [silence EXCEPT !.autoStopped = FALSE,
                              !.quietSince = IF ~quiet THEN 0
                                             ELSE IF @ = 0 THEN silence.now ELSE @]
     IN Store([Cur EXCEPT !.silence = checkSilence(D, silent)])
  /\ UNCHANGED mediaDevices

NextSilence ==
  \/ LoopTimePasses
  \/ LoopStartRecording
  \/ LoopGetUserMediaSettles
  \/ LoopStopRecording
  \/ LoopStopFlush
  \/ \E silent \in Classes : LoopTick(silent)

SpecSilence == InitSilence /\ [][NextSilence]_vars

\* ------------------------------------------------ the preview on its own
\* The component from its mount to its unmount by the End Interview button,
\* with the camera request settling at any time, before or after the unmount.
CameraMount ==
  /\ ~camera.mounted /\ camera.request = "none" /\ commit = "idle"
  /\ Do(initCameraEffect(Cur, mediaDevices), FALSE, FALSE)
  /\ UNCHANGED mediaDevices

\* getUserMedia of initCamera settles
CameraSettles(outcome) ==
  /\ camera.request = "pending" /\ commit \in {"idle", "unmounted"} /\ Quiescent
  /\ LET S == initCameraResume(Cur, outcome)
     IN IF camera.mounted THEN Do(S, FALSE, FALSE) ELSE Store(S)
  /\ UNCHANGED mediaDevices

ReattachTimer(j) ==
  /\ Fires(j, {"reattach"})
  /\ Do(reattachTimeout(Fired(j)), FALSE, FALSE)
  /\ UNCHANGED mediaDevices

\* the End Interview button
ClickEndInterview ==
  /\ Idle /\ camera.mounted /\ MainView(phase) /\ ~isLoading
  /\ Do(onEndInterview(Click(Cur)), FALSE, FALSE)
  /\ UNCHANGED mediaDevices

\* the summary request of handleEndInterviewEarly settles, with whatever
\* result: setViewMode('summary') unmounts the component
EndInterviewResponse(i) ==
  /\ Pending(i, "endInterview")
  /\ \E small \in BOOLEAN :
       LET S == cameraUnmount(cleanup(clearSilenceTimers(
                  [Answered(i) EXCEPT !.commit = "unmounted"])))
           R == DrainOne(S, small)
       IN WithinBounds(R) /\ Store(R)
  /\ UNCHANGED mediaDevices

NextCamera ==
  \/ CameraMount
  \/ \E outcome \in {"ok", "denied"} : CameraSettles(outcome)
  \/ \E j \in 1..Len(timers) : ReattachTimer(j)
  \/ camera.mounted /\ MarkReady
  \/ camera.mounted /\ BeginInterview
  \/ camera.mounted /\ UtteranceStart
  \/ camera.mounted /\ UtteranceEnd
  \/ camera.mounted /\ UtteranceError
  \/ \E j \in 1..Len(timers) : camera.mounted /\ StartListeningTimer(j)
  \/ \E s \in SessionIds, outcome \in GumOutcomes :
       camera.mounted /\ GetUserMediaSettles(s, outcome)
  \/ ClickEndInterview
  \/ \E i \in 1..Len(net) : EndInterviewResponse(i)

SpecCamera == Init /\ [][NextCamera]_vars

\* ------------------------------------------------------------ specification
Next ==
  \/ MarkReady
  \/ BeginInterview
  \/ UtteranceStart
  \/ UtteranceEnd
  \/ UtteranceError
  \/ UtteranceCanceled
  \/ ClickStartRecording
  \/ ClickStopRecording
  \/ ClickSkip
  \/ \E s \in SessionIds, outcome \in GumOutcomes : GetUserMediaSettles(s, outcome)
  \/ \E check \in Checks : CheckSilence(check)
  \/ \E s \in SessionIds : RecorderError(s)
  \/ \E s \in SessionIds : CollectSession(s)
  \/ \E j \in 1..Len(timers) : StopFlushTimer(j)
  \/ \E j \in 1..Len(timers) : AutoSkipTimer(j)
  \/ \E j \in 1..Len(timers) : StartListeningTimer(j)
  \/ \E j \in 1..Len(timers) : SilenceTimer(j)
  \/ \E j \in 1..Len(timers) : CountdownTimer(j)
  \/ \E j \in 1..Len(timers) : ExtendedSilencePasses(j)
  \/ \E j \in 1..Len(timers), text \in Texts : NextQuestionTimer(j, text)
  \/ \E j \in 1..Len(timers) : SummaryTimer(j)
  \/ QuestionChangeEffect
  \/ CommitEffects
  \/ \E i \in 1..Len(net), result \in SttResults : TranscriptionResponse(i, result)
  \/ \E i \in 1..Len(net), ok \in BOOLEAN : SkipResponse(i, ok)
  \/ \E i \in 1..Len(net), ok \in BOOLEAN : AnswerResponse(i, ok)

Spec == Init /\ [][Next]_vars

TypeOK ==
  /\ phase \in {"INITIALIZING_TTS", "READY_TO_START", "AI_SPEAKING",
                "WAITING_TO_RECORD", "RECORDING", "PROCESSING_STT",
                "PROCESSING_ANSWER", "IDLE"}
  /\ silenceCountdown \in 0..COUNTDOWN_SECONDS
  /\ mediaRecorderRef \in 0..MaxSessions
  /\ commit \in {"idle", "reset", "effects", "effectsWatch", "unmounted"}
  /\ \A s \in SessionIds : sessions[s].done <= 1 /\ sessions[s].rel <= 1
  /\ Len(timers) <= MaxTimers + 1
  /\ canceledEvents \in 0..1
  /\ camera.request \in {"none", "pending", "done"}
  /\ camera.tracks \in {"none", "live", "stopped"}

\* ------------------------------------------------------------ properties
CountKind(seq, k) == Len(SelectSeq(seq, LAMBDA t : t.k = k))

Completes(s) == sessions'[s].done = sessions[s].done + 1

\* C1: a completion delivered to handleRecordingComplete while the auto-skip or
\* the manual-skip flag is set changes nothing: no transcription request and no
\* answer submission is made, the phase and the error stay as they were and no
\* retry is scheduled.  (Steps in which the recorder itself failed are left
\* out: there onError, not the completion, moves the phase.)
C1_SkippedCompletionIsDiscarded ==
  [][((\E s \in SessionIds : Completes(s))
      /\ (isAutoSkippingRef \/ isManuallySkippingRef)
      /\ faults' = faults)
     => /\ phase' = phase
        /\ error' = error
        /\ net' = net
        /\ CountKind(timers', "retry") = CountKind(timers, "retry")]_vars

\* the recording stopped by an auto-skip completed before the skip was sent,
\* and the orchestrator is still in RECORDING with nothing in flight
C1_Witness ==
  /\ \E s \in SessionIds : sessions[s].done = 1 /\ sessions[s].stopReq
  /\ isAutoSkippingRef /\ ~isManuallySkippingRef
  /\ HasTimer(timers, "autoSkip")
  /\ phase = "RECORDING" /\ net = <<>>

\* C2: every transcript handed to onAnswerSubmit comes from a recording that
\* was started while the question it is submitted for was the current one.
C2_AnswerFromCurrentQuestion ==
  \A i \in 1..Len(net) : net[i].k = "answer" => net[i].recQ = net[i].q

\* C3: onSkip is called at most once for a question, counting the automatic
\* and the manual path together.
C3_SkipAtMostOncePerQuestion == skipCalls <= 1

\* C4: the countdown reaching zero starts one auto-skip: handleAutoSkip sets
\* its flag, cancels the silence timers, stops the recording and schedules one
\* onSkip; when the flag is already set it does nothing; the scheduled call
\* reaches onSkip once; and a completion that arrives while the flag is set
\* starts no transcription.
C4_AutoSkipOnce ==
  /\ [][\A j \in 1..Len(timers) :
          (CountdownTimer(j) /\ timers[j].c = 1) =>
            /\ skipCalls' = skipCalls
            /\ IF isAutoSkippingRef
               THEN /\ CountKind(timers', "autoSkip") = CountKind(timers, "autoSkip")
                    /\ CountKind(timers', "stopFlush") = CountKind(timers, "stopFlush")
               ELSE /\ isAutoSkippingRef'
                    /\ ~isRecording'
                    /\ analysisIntervalRef' = 0
                    /\ CountKind(timers', "autoSkip") = 1
                    /\ (mediaRecorderRef # 0 /\ sessions[mediaRecorderRef].rec = "recording"
                          => HasTimer(timers', "stopFlush"))]_vars
  /\ [][\A j \in 1..Len(timers) :
          AutoSkipTimer(j) =>
            /\ skipCalls' = skipCalls + 1
            /\ CountKind(net', "skip") = CountKind(net, "skip") + 1
            /\ ~HasTimer(timers', "autoSkip")]_vars
  /\ [][((\E s \in SessionIds : Completes(s)) /\ isAutoSkippingRef /\ faults' = faults)
        => CountKind(net', "stt") = CountKind(net, "stt")]_vars
  /\ [](CountKind(timers, "autoSkip") <= 1)

\* the auto-skip's onSkip call is in flight, the only one for this question
C4_Witness ==
  /\ \E i \in 1..Len(net) : net[i].k = "skip" /\ ~net[i].manual
  /\ isAutoSkippingRef /\ ~isManuallySkippingRef
  /\ skipCalls = 1
  /\ ~HasTimer(timers, "autoSkip")

C6_NoStaleSilenceTimer ==
  /\ [][\A j \in 1..Len(timers) :
          (SilenceTimer(j) \/ CountdownTimer(j)) => timers[j].q = currentQuestion]_vars
  /\ [](commit # "reset" =>
          \A j \in 1..Len(timers) :
            timers[j].k \in {"silence", "countdown"} => timers[j].q = currentQuestion)

\* the question has just changed while a countdown interval armed under the
\* previous question is still pending; the question-change effect runs next
C6_Witness ==
  /\ commit = "reset"
  /\ \E j \in 1..Len(timers) :
       timers[j].k = "countdown" /\ timers[j].q # currentQuestion

HoldsResource(r) ==
  r.stream = "live" \/ r.ctx = "open" \/ r.rec = "recording" \/ r.itv

\* C7: at most one Recording Session holds a live microphone stream: a
\* startRecording call made while a session is open is rejected or tears the
\* open one down first.
C7_AtMostOneSessionOpen ==
  Cardinality({s \in SessionIds : sessions[s].stream = "live"}) <= 1

Recording == mediaRecorderRef # 0 /\ sessions[mediaRecorderRef].rec = "recording"

\* C8: stopRecording may be called again before the first call has taken
\* effect: a session's completion is delivered at most once and its stream is
\* released at most once, the call that finds a stop already pending delivers
\* and releases nothing itself, and so does the timer that finds the recorder
\* already gone; a call made while no recorder is recording arms nothing,
\* delivers nothing and releases nothing.
C8_StopIsIdempotent ==
  /\ [](\A s \in SessionIds : sessions[s].done <= 1 /\ sessions[s].rel <= 1)
  /\ [][(CallStopRecording /\ ~Recording) =>
          /\ timers' = timers
          /\ \A s \in SessionIds :
               /\ sessions'[s].done = sessions[s].done
               /\ sessions'[s].rel = sessions[s].rel
               /\ sessions'[s].stream = sessions[s].stream]_vars
  /\ [][(CallStopRecording /\ HasTimer(timers, "stopFlush")) =>
          \A s \in SessionIds :
            /\ sessions'[s].done = sessions[s].done
            /\ sessions'[s].rel = sessions[s].rel]_vars
  /\ [][\A j \in 1..Len(timers) :
          (ClientStopFlushTimer(j) /\ ~Recording) => sessions' = sessions]_vars

\* the first of two stopRecording calls has delivered the completion and
\* released the session; the timer of the second is still pending
C8_Witness ==
  /\ \E s \in SessionIds :
       /\ sessions[s].stopReq
       /\ sessions[s].done = 1 /\ sessions[s].rel = 1
       /\ ~HoldsResource(sessions[s])
  /\ HasTimer(timers, "stopFlush")
  /\ mediaRecorderRef = 0

\* C9: a session whose stop was requested is torn down once the stop has
\* taken effect: when no stop timer is pending any more it holds no live
\* stream, no open audio context, no running recorder and no interval.
C9_StoppedSessionTornDown ==
  \A s \in SessionIds :
    (sessions[s].stopReq /\ ~HasTimer(timers, "stopFlush"))
      => ~HoldsResource(sessions[s])

\* C10: right after a startRecording call has failed, no session holds a
\* resource and the failed attempt has delivered no completion.
C10_FailedStartLeavesNothingOpen ==
  (\E s \in SessionIds : sessions[s].st = "failed") =>
    /\ \A t \in SessionIds : ~HoldsResource(sessions[t])
    /\ \A s \in SessionIds : sessions[s].st = "failed" => sessions[s].done = 0

\* C12: a skip can be requested in whatever state the turn is in, also while a
\* transcription request is outstanding: the Skip Question button, the only
\* way to reach handleSkip, is enabled then.
C12_SkipNeverBlockedByTranscription ==
  (commit = "idle" /\ \E i \in 1..Len(net) : net[i].k = "stt") => SkipButtonEnabled

\* a skip has been initiated and its onSkip call has not yet settled
SkipUnderWay ==
  \/ isManuallySkippingRef
  \/ HasTimer(timers, "autoSkip")
  \/ \E i \in 1..Len(net) : net[i].k = "skip"

\* C13: the restart that an empty result scheduled does nothing when it comes
\* due while a skip is under way: it asks for no recording and leaves the two
\* skip flags as they are.
C13_RestartDiscardedDuringSkip ==
  [][\A j \in 1..Len(timers) :
       (StartListeningTimer(j) /\ timers[j].k = "retry" /\ SkipUnderWay) =>
         /\ \A s \in SessionIds : sessions'[s].st = sessions[s].st
         /\ isAutoSkippingRef' = isAutoSkippingRef
         /\ isManuallySkippingRef' = isManuallySkippingRef]_vars

AddsTimer(k) == CountKind(timers', k) = CountKind(timers, k) + 1

AddsRequest(k) == CountKind(net', k) = CountKind(net, k) + 1

SameRequests(k) == CountKind(net', k) = CountKind(net, k)

\* C14: with no skip flag set, an empty or unrecognized transcript and a blob
\* under the size floor lead to no onAnswerSubmit call; the error is shown,
\* the phase is IDLE and one restart is scheduled RETRY_DELAY ahead.  A
\* completion either starts a transcription or schedules the restart, never
\* submits.  A scheduled restart goes away only by coming due, and it then
\* calls startListening, which asks the capturer for a recording.
C14_EmptyResultRestarts ==
  /\ [][\A i \in 1..Len(net) : \A result \in {"empty", "unrecognized"} :
          (TranscriptionResponse(i, result) /\ ~SkipInFlight(Cur)) =>
            /\ SameRequests("answer")
            /\ AddsTimer("retry")
            /\ timers'[Len(timers')] = Timer("retry", RETRY_DELAY, 0, currentQuestion)
            /\ phase' = "IDLE" /\ error']_vars
  /\ [][((\E s \in SessionIds : Completes(s)) /\ ~SkipInFlight(Cur)
          /\ faults' = faults) =>
            /\ SameRequests("answer")
            /\ \/ AddsRequest("stt") /\ phase' = "PROCESSING_STT"
                  /\ CountKind(timers', "retry") = CountKind(timers, "retry")
               \/ AddsTimer("retry") /\ SameRequests("stt")
                  /\ phase' = "IDLE" /\ error']_vars
  /\ [][CountKind(timers', "retry") < CountKind(timers, "retry") =>
          \E j \in 1..Len(timers) :
            /\ timers[j].k = "retry" /\ StartListeningTimer(j)
            /\ IF mediaDevices
               THEN \E s \in SessionIds :
                      sessions[s].st = "free" /\ sessions'[s].st = "pending"
               ELSE error' /\ phase' = "IDLE"]_vars

\* an empty result has just been shown and its restart is pending: no skip
\* flag is set and nothing was submitted
C14_Witness ==
  /\ HasTimer(timers, "retry")
  /\ phase = "IDLE" /\ error
  /\ ~isAutoSkippingRef /\ ~isManuallySkippingRef
  /\ net = <<>>

\* C15: when the transcription or the submission fails (network failure or a
\* non-success response) the error is shown with the Retry button (error set
\* and phase IDLE), and nothing is restarted or sent again by the program: no
\* restart is scheduled, no request is made and no recording is asked for.
C15_ServiceErrorParksWithRetry ==
  [][\A i \in 1..Len(net) :
       (TranscriptionResponse(i, "failed") \/ AnswerResponse(i, FALSE)) =>
         /\ error' /\ phase' = "IDLE"
         /\ CountKind(timers', "retry") = CountKind(timers, "retry")
         /\ Len(net') = Len(net) - 1
         /\ \A s \in SessionIds : sessions'[s].st = sessions[s].st]_vars

\* something is under way that will move the controller on without the user:
\* a timeout or interval, a request, a getUserMedia call, the silence check of
\* a running recorder, an utterance or one of its events, the engine's
\* warm-up, or a commit that has not finished
AutomaticPending ==
  \/ \E j \in 1..Len(timers) : timers[j].k # "elapsed"
  \/ net # <<>>
  \/ \E s \in SessionIds : sessions[s].st = "pending"
  \/ Recording /\ analysisIntervalRef # 0
  \/ utterance # "none" \/ canceledEvents > 0
  \/ speechSynthesis /\ ~isReady
  \/ commit # "idle"
  \/ ~Quiescent

\* a button that moves the turn on is rendered and enabled: Begin Interview,
\* Retry or Start Recording, Stop Recording with a recorder running, Skip
UserActionEnabled ==
  \/ phase = "READY_TO_START"
  \/ phase = "IDLE" /\ (error \/ ~isLoading)
  \/ phase = "RECORDING" /\ Recording
  \/ SkipButtonEnabled

\* C16: while the component is mounted it is never at rest with nothing
\* pending and no enabled button that moves the turn on.
C16_NoErrorStrands ==
  commit # "unmounted" => AutomaticPending \/ UserActionEnabled

TimesSpoken(text) == Len(SelectSeq(spoken, LAMBDA t : t = text))

\* C20: Begin Interview calls speak once, with the opening message; the
\* watcher effect of the same commit does not speak it again (no utterance is
\* cancelled in that step) and it is never spoken again later.  When the
\* utterance ends a call of startListening is scheduled TTS_END_PAUSE ahead,
\* when it fails one is scheduled TTS_ERROR_PAUSE ahead, and the scheduled
\* call asks the capturer for a recording.
C20_BeginSpeaksOnceThenListens ==
  /\ [][BeginInterview =>
          /\ spoken' = Append(spoken, 1)
          /\ utterance' = "pending"
          /\ canceledEvents' = canceledEvents
          /\ phase' = "AI_SPEAKING"]_vars
  /\ [](TimesSpoken(1) <= 1)
  /\ [][UtteranceEnd =>
          /\ AddsTimer("ttsEnd")
          /\ timers'[Len(timers')].d = TTS_END_PAUSE
          /\ phase' = "WAITING_TO_RECORD"]_vars
  /\ [][UtteranceError =>
          /\ AddsTimer("ttsError")
          /\ timers'[Len(timers')].d = TTS_ERROR_PAUSE
          /\ phase' = "WAITING_TO_RECORD"]_vars
  /\ [][\A j \in 1..Len(timers) :
          (StartListeningTimer(j) /\ timers[j].k \in {"ttsEnd", "ttsError"}) =>
            IF mediaDevices
            THEN \E s \in SessionIds :
                   sessions[s].st = "free" /\ sessions'[s].st = "pending"
            ELSE error' /\ phase' = "IDLE"]_vars

\* the opening message was spoken once and its utterance ended; the pause has
\* passed and the recording that startListening asked for is being opened
C20_Witness ==
  /\ spoken = <<1>>
  /\ utterance = "none"
  /\ phase = "RECORDING"
  /\ ~HasTimer(timers, "ttsEnd") /\ ~HasTimer(timers, "ttsError")
  /\ \E s \in SessionIds : sessions[s].st = "pending"
  /\ clicks = 0

\* C17: the platform's queue never holds more than one utterance: a speak
\* call that passes its checks removes every utterance that is queued or
\* being spoken (each is handed its 'error' event) and leaves its own
\* utterance alone in the queue.
C17_OneUtteranceAtATime ==
  /\ [](Len(synthesis.queue) <= 1)
  /\ [][(CallSpeak(FALSE) /\ speechSynthesis) =>
          /\ synthesis'.queue = <<[u |-> Len(calls) + 1, st |-> "queued"]>>
          /\ \A i \in 1..Len(synthesis.queue) :
               \E z \in synthesis'.cancelled : z.u = synthesis.queue[i].u]_vars

\* the second speak call was made while the first utterance was being
\* spoken: the first is out of the queue, its 'error' event still to come
C17_Witness ==
  /\ synthesis.queue # <<>> /\ QueueHead.u = 2
  /\ [u |-> 1, err |-> "interrupted"] \in synthesis.cancelled
  /\ calls[1].starts = 1

\* C18: a speak call gets onStart at most once, and once when its utterance
\* ran to its end; it gets at most one onEnd or onError; the 'error' event of
\* an utterance that a later speak or stop cancelled reaches neither onEnd nor
\* onError; any other failure of the utterance reaches onError once; and the
\* next speak call queues its utterance whatever came before.
C18_CallbacksPerSpeakCall ==
  /\ [](\A u \in 1..Len(calls) :
          /\ calls[u].starts <= 1
          /\ calls[u].ends + calls[u].errors <= 1
          /\ calls[u].ends = 1 => calls[u].starts = 1)
  /\ [][\A z \in synthesis.cancelled : CancelledEvent(z) => calls' = calls]_vars
  /\ [][(PlatformError /\ QueueHead.u # WarmUp) =>
          calls' = [calls EXCEPT ![QueueHead.u].errors = @ + 1]]_vars
  /\ [][(CallSpeak(FALSE) /\ speechSynthesis) =>
          synthesis'.queue = <<[u |-> Len(calls) + 1, st |-> "queued"]>>]_vars

\* C19: once the driver is ready it stays ready, and on a platform without
\* speech synthesis the driver is never ready and, once mounted, reports
\* that speech is not supported and an error.
C19_ReadinessMonotonicAndGated ==
  /\ [][isReady => isReady']_vars
  /\ [](~speechSynthesis =>
          /\ ~isReady
          /\ ~tts.isReadyRef
          /\ tts.mounted => (~tts.isSupported /\ tts.error))

\* the driver became ready, and after that a speak call failed on the platform,
\* a second call was made and the fallback timeouts have all fired
C19_Witness ==
  /\ speechSynthesis /\ isReady /\ tts.isReadyRef
  /\ Len(calls) = 2 /\ calls[1].starts = 1 /\ calls[1].errors = 1
  /\ timers = <<>>

\* C11: once the component is unmounted no track of the camera preview stream
\* is live, whether the stream was acquired before the unmount or after it.
C11_CameraReleasedOnTeardown ==
  commit = "unmounted" => camera.tracks # "live"

\* C21: a successful answer submission that is not the last schedules exactly
\* one entry for the next question; once that entry is the last of the
\* conversation and nothing is loading, it has been handed to speak exactly
\* once, whatever its text; no entry of a next question is spoken twice; and
\* the speak call leaves an utterance that enters AI_SPEAKING when it starts.
C21_NextQuestionSpokenOnce ==
  /\ [][\A i \in 1..Len(net) :
          (AnswerResponse(i, TRUE) /\ serverQuestion < MaxQuestions) =>
            /\ CountKind(timers', "nextAfterAnswer")
                 = CountKind(timers, "nextAfterAnswer") + 1
            /\ timers'[Len(timers')].c = serverQuestion + 1]_vars
  /\ [][\A j \in 1..Len(timers), text \in Texts :
          NextQuestionTimer(j, text) => lastMessage' = timers[j].c]_vars
  /\ []((commit = "idle" /\ lastMessage \in 2..MaxQuestions /\ ~isLoading)
          => TimesSpoken(lastMessage) = 1)
  /\ [](\A q \in 2..MaxQuestions : TimesSpoken(q) <= 1)
  /\ [][\A q \in 2..MaxQuestions :
          TimesSpoken(q)' > TimesSpoken(q) => utterance' = "pending"]_vars
  /\ [][UtteranceStart => phase' = "AI_SPEAKING"]_vars

C23_ReadyOnlyOnSignal ==
  /\ [][(~isReady /\ isReady') =>
          \/ \E j \in 1..Len(timers) : MarkReadyTimeout(j) \/ NoVoicesTimeout(j)
          \/ (PlatformEnd \/ PlatformError) /\ QueueHead.u = WarmUp
          \/ \E z \in synthesis.cancelled : z.u = WarmUp /\ CancelledEvent(z)]_vars
  /\ [][isReady => isReady']_vars
  /\ [](isReady <=> tts.isReadyRef)

\* C24: on a platform with speech synthesis the driver becomes ready, with
\* no help from the platform: the voices may never arrive or arrive after the
\* no-voices timeout was armed, and the warm-up utterance may never end.
C24_EventuallyReady == speechSynthesis ~> isReady

\* ready although the voices never arrived, every timeout having fired
C24_Witness ==
  /\ speechSynthesis /\ isReady
  /\ ~synthesis.voices /\ timers = <<>>

\* voice i of the list matches entry p of PREFERRED_VOICES
Matches(list, i, p) ==
  Includes(list[i].name, PREFERRED_VOICES[p]) /\ StartsWithEn(list[i].lang)

\* C25: the result of selectBestVoice is null exactly when the list is empty;
\* when some voice matches an entry of PREFERRED_VOICES it is the first voice
\* of the list that matches the earliest entry that any voice matches; else
\* when some voice is English it is the first English voice; else it is the
\* first voice.
C25_SelectBestVoice ==
  bestVoice # -1 =>
    LET n == Len(voices)
        ps == {p \in 1..Len(PREFERRED_VOICES) : \E i \in 1..n : Matches(voices, i, p)}
        en == {i \in 1..n : StartsWithEn(voices[i].lang)}
    IN /\ bestVoice = 0 <=> n = 0
       /\ ps # {} =>
            \E p \in ps :
              /\ \A p2 \in ps : p <= p2
              /\ Matches(voices, bestVoice, p)
              /\ \A i \in 1..(bestVoice - 1) : ~Matches(voices, i, p)
       /\ (ps = {} /\ en # {}) =>
            bestVoice \in en /\ \A i \in en : bestVoice <= i
       /\ (ps = {} /\ en = {} /\ n > 0) => bestVoice = 1

\* a list whose first voice matches a later entry of PREFERRED_VOICES than its
\* third, with a voice between them that has the name but not the language:
\* the third voice is selected
C25_Witness ==
  /\ Len(voices) = 3 /\ bestVoice = 3
  /\ voices[1].name = "Alex and Samantha" /\ StartsWithEn(voices[1].lang)
  /\ voices[2].name = "Google US English" /\ ~StartsWithEn(voices[2].lang)
  /\ voices[3].name = "Microsoft Zira Desktop" /\ StartsWithEn(voices[3].lang)

\* C26: a speak call on a platform without speech synthesis, or with a text
\* that is empty after trimming, reports an error (the driver's error is set
\* and onError is called once) and does nothing else: the queue of the
\* platform is as it was, nothing is cancelled, and the call gets no onStart
\* and no onEnd, then or later (these come only with the 'start' and 'end'
\* events of an utterance the call queued).
C26_SpeakFailsFast ==
  /\ [][\A empty \in BOOLEAN :
          (CallSpeak(empty) /\ (empty \/ ~speechSynthesis)) =>
            /\ synthesis' = synthesis
            /\ calls' = Append(calls, [starts |-> 0, ends |-> 0, errors |-> 1])
            /\ tts'.error
            /\ tts'.isSpeaking = tts.isSpeaking]_vars
  /\ [][\A u \in 1..Len(calls) :
          /\ calls'[u].starts > calls[u].starts => PlatformStart /\ QueueHead.u = u
          /\ calls'[u].ends > calls[u].ends => PlatformEnd /\ QueueHead.u = u]_vars
  /\ [](\A i \in 1..Len(synthesis.queue) : synthesis.queue[i].u <= Len(calls))
  /\ [][\A i \in 1..Len(synthesis'.queue) :
          synthesis'.queue[i].u > Len(calls) => CallSpeak(FALSE) /\ speechSynthesis]_vars

\* call u has a keep-alive interval armed
KeepAliveOf(seq, u) == \E i \in 1..Len(seq) : seq[i].k = "keepAlive" /\ seq[i].c = u

\* C27: the keep-alive interval of a speak call is cleared when its utterance
\* ends, be it by completion, by a platform error or by cancellation (the
\* step that delivers the utterance's 'end' or 'error' event leaves no
\* interval of that call); an interval never pauses and resumes the platform
\* while an utterance other than its own is spoken; and at most one
\* keep-alive interval is live at any time.
C27_KeepAliveEndsWithUtterance ==
  /\ [][(PlatformEnd \/ PlatformError) /\ QueueHead.u # WarmUp
          => ~KeepAliveOf(timers', QueueHead.u)]_vars
  /\ [][\A z \in synthesis.cancelled :
          CancelledEvent(z) /\ z.u # WarmUp => ~KeepAliveOf(timers', z.u)]_vars
  /\ [](\A p \in synthesis.pauses : p.by = p.on)
  /\ [](CountKind(timers, "keepAlive") <= 1)

\* C28: a tick of the capturer calls onSilenceDetected and stopRecording only
\* with auto-stop enabled, the recording at least MIN_RECORDING_DURATION old,
\* and every analysis tick of at least the last silenceDuration silent; the
\* silence start is set by the first silent tick past the floor, kept by the
\* silent ticks that follow and cleared by a tick that is not silent.
C28_AutoStopOnlyOnContiguousSilence ==
  /\ [](silence.autoStopped =>
          /\ silence.autoStopOnSilence
          /\ silence.recordingStartRef # 0
          /\ silence.now - silence.recordingStartRef >= MIN_RECORDING_DURATION
          /\ silence.quietSince # 0
          /\ silence.now - silence.quietSince >= silence.silenceDuration)
  /\ []((silence.recorder = "recording" /\ silence.silenceStartRef # 0) =>
          silence.quietSince # 0 /\ silence.quietSince <= silence.silenceStartRef)
  /\ [][\A silent \in Classes :
          (/\ LoopTick(silent)
           /\ silence.recorder = "recording" /\ silence.autoStopOnSilence
           /\ silence.recordingStartRef # 0
           /\ silence.now - silence.recordingStartRef >= MIN_RECORDING_DURATION)
          => silence'.silenceStartRef =
               IF ~silent THEN 0
               ELSE IF silence.silenceStartRef = 0 THEN silence.now
               ELSE silence.silenceStartRef]_vars

C28_Witness ==
  /\ silence.autoStopped
  /\ silence.silenceDuration = SILENCE_DURATION
  /\ silence.now - silence.silenceStartRef = SILENCE_DURATION

\* C29: a buffer whose samples are all at the midpoint 128 is classified
\* silent, and a buffer of full-scale samples (each 0 or 255) is classified
\* not silent.
C29_SilencePredicate ==
  (samples.analyser /\ samples.called) =>
    /\ (\A i \in 1..Len(samples.data) : samples.data[i] = MIDPOINT)
         => samples.result = TRUE
    /\ (\A i \in 1..Len(samples.data) : samples.data[i] \in {0, 255})
         => samples.result = FALSE

C29_Witness ==
  /\ samples.analyser /\ samples.called /\ Len(samples.data) = MaxSamples
  /\ samples.result = TRUE
  /\ \A i \in 1..Len(samples.data) : samples.data[i] = MIDPOINT

\* C30: the phase leaves INITIALIZING_TTS only for READY_TO_START, in a step
\* after which the driver is ready and with a first interviewer message that
\* has a text; READY_TO_START is left only by the user's Begin Interview; and
\* while the phase is one of the two nothing was handed to speak, no utterance
\* is under way, no recording session exists and no call of startListening is
\* scheduled.
C30_NoSpeechBeforeBegin ==
  /\ [][(phase = "INITIALIZING_TTS" /\ phase' # phase) =>
          /\ phase' = "READY_TO_START"
          /\ isReady'
          /\ lastMessage # 0 /\ messageText # 0]_vars
  /\ [][(phase = "READY_TO_START" /\ phase' # phase) => BeginInterview]_vars
  /\ [](phase \in {"INITIALIZING_TTS", "READY_TO_START"} =>
          /\ spoken = <<>>
          /\ utterance = "none"
          /\ \A s \in SessionIds : sessions[s] = NoSession
          /\ mediaRecorderRef = 0 /\ ~isRecording
          /\ \A k \in {"ttsEnd", "ttsError", "retry"} : ~HasTimer(timers, k))

C30_Witness ==
  /\ phase = "READY_TO_START" /\ isReady /\ messageText = 1
  /\ spoken = <<>>

\* ---------------------------------------------------------------- C31
\* a timer of kind k whose closure holds c
HasTimerAt(seq, k, c) == \E i \in 1..Len(seq) : seq[i].k = k /\ seq[i].c = c

\* a countdown begins: an interval holding the full count is created
CountdownStarts ==
  /\ HasTimerAt(timers', "countdown", COUNTDOWN_SECONDS)
  /\ ~HasTimerAt(timers, "countdown", COUNTDOWN_SECONDS)

\* the silence timeout of the watchdog expires in this step
SilenceTimerExpires ==
  /\ HasTimerAt(timers, "silence", 0)
  /\ ~HasTimer(timers', "silence")
  /\ silenceTimerRef'

\* C31: a countdown begins only in RECORDING, and only when no speech was
\* detected in this recording and the long threshold has passed since it
\* began, or when speech was detected and the silence timeout, which runs for
\* the long threshold and which any detected speech cancels, has expired; no
\* countdown begins while another one is running, and a silence timeout is
\* pending only while the phase is RECORDING, speech was detected and the last
\* published level is below the speech threshold.
C31_CountdownOnlyAfterLongSilence ==
  [][/\ CountKind(timers', "countdown") <= 1
     /\ \A i \in 1..Len(timers') :
          timers'[i].k = "silence" =>
            /\ timers'[i].d = EXTENDED_SILENCE_THRESHOLD
            /\ phase' = "RECORDING"
            /\ hasUserSpokenThisRecording'
            /\ audioLevel' <= SPEECH_THRESHOLD
     /\ CountdownStarts =>
          /\ phase' = "RECORDING"
          /\ \/ ~HasTimer(timers, "countdown")
             \/ HasTimerAt(timers, "countdown", 1)
          /\ \/ /\ ~hasUserSpokenThisRecording'
                /\ recordingStartTimeRef' = "set"
                /\ ~HasTimer(timers', "elapsed")
             \/ /\ hasUserSpokenThisRecording'
                /\ SilenceTimerExpires]_vars

\* a countdown that began after speech and a full silence timeout
C31_Witness ==
  /\ phase = "RECORDING"
  /\ hasUserSpokenThisRecording
  /\ HasTimerAt(timers, "countdown", COUNTDOWN_SECONDS)
  /\ silenceCountdown = COUNTDOWN_SECONDS

\* ---------------------------------------------------------------- C32
\* C32: when checkSilence asked for the stop of a recording while no skip was
\* under way, and the user clicked nothing, the completion of that recording
\* passes the guard of handleRecordingComplete: the phase leaves RECORDING for
\* the transcription (or for the retry of a recording that is too small), no
\* countdown and no silence timeout remains, and no onSkip call was made or is
\* scheduled.
C32_OwnStopTakesPrecedence ==
  [][\A s \in SessionIds :
       (sessions[s].ownStop /\ clicks = 0 /\ Completes(s)) =>
         /\ phase' \in {"PROCESSING_STT", "IDLE"}
         /\ ~HasTimer(timers', "countdown")
         /\ ~HasTimer(timers', "silence")
         /\ ~HasTimer(timers', "autoSkip")
         /\ skipCalls' = 0]_vars

\* ---------------------------------------------------------------- C33
\* C33: after a resetRecording call, made in any state of the capturer, the
\* hook holds no stream, recorder, analyser or interval, no session has a live
\* stream, a recording recorder or a scheduled interval, the audio level is 0,
\* isRecording is false, and no completion is delivered for a session that the
\* call discarded.
C33_ResetClearsEverything ==
  [][CallResetRecording =>
       /\ mediaRecorderRef' = 0 /\ audioStreamRef' = 0
       /\ audioContextRef' = 0 /\ analyserRef' = 0 /\ analysisIntervalRef' = 0
       /\ \A s \in SessionIds :
            /\ sessions'[s].stream # "live"
            /\ sessions'[s].rec # "recording"
            /\ ~sessions'[s].itv
            /\ ~Completes(s)
       /\ audioLevel' = QuietLevel
       /\ ~isRecording']_vars

\* ---------------------------------------------------------------- C34
\* C34: a session holds a live microphone stream only while the phase is
\* RECORDING: never while the interviewer speaks, while a transcription or a
\* submission is in progress, or while the controller is idle.
C34_MicOnlyWhileRecording ==
  \A s \in SessionIds : sessions[s].stream = "live" => phase = "RECORDING"

\* ---------------------------------------------------------------- C35
\* the service accepted an answer for the current question: the entry of the
\* next question (or the summary) is scheduled and not yet installed
AnswerAccepted ==
  \/ HasTimer(timers, "nextAfterAnswer")
  \/ lastMessage = MaxQuestions + 1

\* C35: onAnswerSubmit is not called for a question while an answer to it is
\* in flight or was accepted by the service, and no transcription is asked
\* for while one is in flight.
C35_OneAnswerPerQuestion ==
  [][/\ AddsRequest("answer") =>
          /\ CountKind(net, "answer") = 0
          /\ ~AnswerAccepted
     /\ AddsRequest("stt") => CountKind(net, "stt") = 0]_vars

\* ---------------------------------------------------------------- C36
\* C36: a session gets one outcome callback and no more: a step in which the
\* recorder of a session fails, or in which its start fails, calls onError
\* and delivers no completion of that session, so that nothing of it is
\* transcribed; and no session's completion is delivered twice.
C36_OneOutcomePerSession ==
  [][\A s \in SessionIds :
       /\ RecorderError(s) => (~Completes(s) /\ SameRequests("stt"))
       /\ (\E outcome \in GumOutcomes \ {"ok"} : GetUserMediaSettles(s, outcome))
            => ~Completes(s)
       /\ sessions'[s].done <= 1]_vars

\* ---------------------------------------------------------------- C37
\* C37: isRecording is false whenever no session has a recorder that is
\* recording: after a failed start, a recorder error, resetRecording and a
\* completed stop.
C37_IndicatorFollowsSession ==
  (\A s \in SessionIds : sessions[s].rec # "recording") => ~isRecording

\* ---------------------------------------------------------------- C38
\* an auto-skip was triggered for the current question and is not yet over
AutoSkipTriggered ==
  \/ HasTimer(timers, "autoSkip")
  \/ \E i \in 1..Len(net) : net[i].k = "skip" /\ ~net[i].manual

\* C38: the warning is displayed only while a countdown interval is running
\* and a recorder is recording, the displayed value is in 1..3 and, within
\* one countdown, only decreases; no countdown begins once an auto-skip was
\* triggered for the question.
C38_WarningHasTimerBehindIt ==
  [][/\ (showSkipWarning' \/ silenceCountdown' # 0) =>
          /\ showSkipWarning'
          /\ silenceCountdown' \in 1..COUNTDOWN_SECONDS
          /\ HasTimerAt(timers', "countdown", silenceCountdown')
          /\ \E s \in SessionIds : sessions'[s].rec = "recording"
     /\ (silenceCountdown # 0 /\ silenceCountdown' # 0 /\ ~CountdownStarts) =>
          silenceCountdown' <= silenceCountdown
     /\ CountdownStarts => ~AutoSkipTriggered']_vars

\* ---------------------------------------------------------------- C39
\* C39: a session whose startRecording call was awaiting getUserMedia when
\* stopRecording was called never holds a live stream or a recording
\* recorder: the stream that arrives late is not turned into a recording.
C39_StopDuringStartLeavesNothingOpen ==
  \A s \in SessionIds :
    sessions[s].early => (sessions[s].stream # "live" /\ sessions[s].rec # "recording")
====
